---------------------------- MODULE Spec2Model ----------------------------
(***************************************************************************)
(* Model of the operation-queue synchronisation engine of                  *)
(* coordinate-sniper: the SQLite-backed Local State Store (local_db.py),   *)
(* the unified dispatcher (unified_sync_engine.py) and the user sync       *)
(* engine (sync_engine.py).                                                *)
(*                                                                         *)
(* Eight specifications share the variables:                               *)
(*   SpecStore    any sequence of LocalDB calls by one caller,             *)
(*   SpecIncr     concurrent increment_retry calls on one record,          *)
(*   SpecWorkers  two engines on one store, given the same subject,        *)
(*   SpecReport   any one call of report_error_to_server,                  *)
(*   Spec         the unified sync loop processing batches of operations,  *)
(*   SpecMain     the start of the process followed by the sync loop,      *)
(*   SpecLive     the sync loop with no interrupt, under weak fairness,    *)
(*   SpecUser     the user sync engine (sync_engine.py) and its loop.      *)
(*                                                                         *)
(* Text values are sequences of tokens, so that strip(), concatenation     *)
(* and substring tests are computed and not assumed.  SQL NULL / Python    *)
(* None is the one-token text Null, whose token occurs in no other text.   *)
(* A timestamp text is <<day, separator, time of day>>; a NULL timestamp   *)
(* is the empty tuple.                                                     *)
(***************************************************************************)
EXTENDS Integers, Sequences, FiniteSets, TLC

(***************************************************************************)
(* Bounds of the model.                                                    *)
(***************************************************************************)
MaxTime == 1
TicksPerDay == 1
MaxRetryCount == 3
NWorkers == 3
MaxBatches == 2
MaxBatchLen == 2

(***************************************************************************)
(* Subjects (users of the remote source) and their immutable fields.       *)
(***************************************************************************)
Subjects == {"s1", "s2"}

UserDoc(s) ==
  [_id |-> s, clientCode |-> <<"code-", s>>, firstName |-> <<"first-", s>>,
   lastName |-> <<"last-", s>>]

Null == <<"NULL">>
NullTime == <<>>

PENDING == "pending"
PROCESSING == "processing"
COMPLETED == "completed"
FAILED == "failed"
UserStatus == {PENDING, PROCESSING, COMPLETED, FAILED}

(***************************************************************************)
(* Time.  The clock counts ticks; a day has TicksPerDay ticks.             *)
(* CURRENT_TIMESTAMP and datetime('now', ...) of SQLite give the text      *)
(* "YYYY-MM-DD HH:MM:SS", datetime.now().isoformat() of Python gives       *)
(* "YYYY-MM-DDTHH:MM:SS.ffffff".  SQLite compares the two as text, and     *)
(* the blank sorts before the letter T.                                    *)
(***************************************************************************)
Day(t) == t \div TicksPerDay
Tod(t) == t % TicksPerDay

SqlTimestamp(t) == <<Day(t), " ", Tod(t)>>
IsoFormat(t) == <<Day(t), "T", Tod(t)>>

SepLess(a, b) == a = " " /\ b = "T"

\* SQLite's text comparison a < b of two timestamp texts; NULL compares to
\* nothing (the comparison is NULL, which a WHERE clause treats as false).
TextLess(a, b) ==
  /\ a # NullTime
  /\ b # NullTime
  /\ \/ a[1] < b[1]
     \/ a[1] = b[1] /\ SepLess(a[2], b[2])
     \/ a[1] = b[1] /\ a[2] = b[2] /\ a[3] < b[3]

TextLeq(a, b) == a = b \/ TextLess(a, b)

(***************************************************************************)
(* The users table: a sequence of rows in insertion (rowid) order.         *)
(***************************************************************************)
HasRow(tbl, id) == \E i \in DOMAIN tbl : tbl[i].user_id = id

RowsOf(tbl, id) == SelectSeq(tbl, LAMBDA r : r.user_id = id)

\* INSERT: the column defaults of the CREATE TABLE statement.  The column
\* created_at is left out: the INSERT writes it once and only the ORDER BY of
\* get_pending_users reads it.
NewRow(id, client_code, first_name, last_name, status, t) ==
  [user_id |-> id, client_code |-> client_code, first_name |-> first_name,
   last_name |-> last_name, status |-> status, recording_link |-> Null,
   error_message |-> Null, retry_count |-> 0,
   processed_at |-> NullTime, updated_at |-> SqlTimestamp(t)]

\* A variant with INSERT OR REPLACE: an existing row is replaced by a new one.
AddUserOrReplace(tbl, id, client_code, first_name, last_name, t) ==
  Append(SelectSeq(tbl, LAMBDA r : r.user_id # id),
         NewRow(id, client_code, first_name, last_name, PENDING, t))

\* LocalDB.add_user: INSERT OR IGNORE on the primary key user_id.
AddUser(tbl, id, client_code, first_name, last_name, t) ==
  IF HasRow(tbl, id) THEN tbl
  ELSE Append(tbl, NewRow(id, client_code, first_name, last_name, PENDING, t))

\* LocalDB.get_user: the row, or Null when there is none.
GetUser(tbl, id) ==
  IF HasRow(tbl, id) THEN RowsOf(tbl, id)[1] ELSE Null

\* A variant that stamps completed records only.
ProcessedAtCompletedOnly(status, t) ==
  IF status = COMPLETED THEN IsoFormat(t) ELSE NullTime

\* update_status: processed_at is now() for completed and failed, else NULL.
ProcessedAtFor(status, t) ==
  IF status \in {COMPLETED, FAILED} THEN IsoFormat(t) ELSE NullTime

\* A variant that starts the retries anew when a record is completed.
UpdateStatusClearsRetries(tbl, id, status, recording_link, error_message, t) ==
  [i \in DOMAIN tbl |->
     IF tbl[i].user_id = id
     THEN [tbl[i] EXCEPT !.status = status,
                         !.recording_link = recording_link,
                         !.error_message = error_message,
                         !.retry_count = IF status = COMPLETED THEN 0 ELSE @,
                         !.processed_at = ProcessedAtFor(status, t),
                         !.updated_at = SqlTimestamp(t)]
     ELSE tbl[i]]

\* LocalDB.update_status: one UPDATE of every column but retry_count.
UpdateStatus(tbl, id, status, recording_link, error_message, t) ==
  [i \in DOMAIN tbl |->
     IF tbl[i].user_id = id
     THEN [tbl[i] EXCEPT !.status = status,
                         !.recording_link = recording_link,
                         !.error_message = error_message,
                         !.processed_at = ProcessedAtFor(status, t),
                         !.updated_at = SqlTimestamp(t)]
     ELSE tbl[i]]

\* LocalDB.increment_retry, the UPDATE statement.
IncrementRetry(tbl, id, t) ==
  [i \in DOMAIN tbl |->
     IF tbl[i].user_id = id
     THEN [tbl[i] EXCEPT !.retry_count = @ + 1, !.updated_at = SqlTimestamp(t)]
     ELSE tbl[i]]

\* A variant that compares the status with a text no record carries.
IsUserProcessedNever(tbl, id) ==
  IF ~HasRow(tbl, id) THEN FALSE
  ELSE GetUser(tbl, id).status = "COMPLETED"

\* LocalDB.is_user_processed.
IsUserProcessed(tbl, id) ==
  IF ~HasRow(tbl, id) THEN FALSE
  ELSE GetUser(tbl, id).status = COMPLETED

\* A variant that also clears what the earlier attempts left on the record.
ResetUserClearsAttempt(tbl, id, t) ==
  [i \in DOMAIN tbl |->
     IF tbl[i].user_id = id
     THEN [tbl[i] EXCEPT !.status = PENDING, !.processed_at = NullTime,
                         !.retry_count = 0, !.recording_link = Null,
                         !.error_message = Null,
                         !.updated_at = SqlTimestamp(t)]
     ELSE tbl[i]]

\* LocalDB.reset_user.
ResetUser(tbl, id, t) ==
  [i \in DOMAIN tbl |->
     IF tbl[i].user_id = id
     THEN [tbl[i] EXCEPT !.status = PENDING, !.processed_at = NullTime,
                         !.updated_at = SqlTimestamp(t)]
     ELSE tbl[i]]

\* A variant whose DELETE does not look at the status.
CleanupMatchesAnyStatus(r, days, t) ==
  TextLess(r.processed_at, SqlTimestamp(t - days * TicksPerDay))

\* LocalDB.cleanup_old_records: the rows the DELETE statement matches.
CleanupMatches(r, days, t) ==
  /\ r.status = COMPLETED
  /\ TextLess(r.processed_at, SqlTimestamp(t - days * TicksPerDay))

CleanupOldRecords(tbl, days, t) ==
  SelectSeq(tbl, LAMBDA r : ~CleanupMatches(r, days, t))

CleanupDeleted(tbl, days, t) == Len(tbl) - Len(CleanupOldRecords(tbl, days, t))

\* A variant whose bound on retry_count is not strict.
FailedMatchesInclusive(r, max_retries) ==
  r.status = FAILED /\ r.retry_count <= max_retries

\* LocalDB.get_failed_users: the WHERE clause.
FailedMatches(r, max_retries) ==
  r.status = FAILED /\ r.retry_count < max_retries

\* A sequence is ordered by updated_at ascending.
OrderedByUpdatedAt(rows) ==
  \A i, j \in DOMAIN rows : i < j => TextLeq(rows[i].updated_at, rows[j].updated_at)

Injective(f) == \A i, j \in DOMAIN f : f[i] = f[j] => i = j

\* The results the SELECT of get_failed_users may give: every matching row
\* once, ORDER BY updated_at ASC; SQL leaves the order of equal keys open.
GetFailedUsers(tbl, max_retries) ==
  LET match == {i \in DOMAIN tbl : FailedMatches(tbl[i], max_retries)}
      n == Cardinality(match)
  IN {[k \in 1..n |-> tbl[p[k]]] :
        p \in {q \in [1..n -> match] :
                 Injective(q) /\ OrderedByUpdatedAt([k \in 1..n |-> tbl[q[k]]])}}


(***************************************************************************)
(* State.                                                                  *)
(*   users, now   the users table of the Local State Store and the clock   *)
(*   last         SpecStore: the last query made and what it returned      *)
(*   wpc, dbLock, txn, wret, incrBase                                      *)
(*                SpecIncr: each worker's position in increment_retry, the *)
(*                holder of SQLite's write lock, each connection's         *)
(*                uncommitted copy of the table, the value each call       *)
(*                returned, and the retry_count before the calls           *)
(*   pc, left, nbatches, cur, res, errMsg, rpt, faults, stopCause         *)
(*                Spec: the sync loop's position, the number of operations *)
(*                of the batch not yet visited, the number of batches      *)
(*                received, the operation being processed, the executor's  *)
(*                result, the local error_msg, the Status Reporter's       *)
(*                state, the number of failed store writes, and why the    *)
(*                loop ended                                               *)
(*   calls, execs, opStart, faulted                                        *)
(*                Spec, history of the operation being processed: the      *)
(*                remote mutations made for it, the number of executor     *)
(*                invocations, the table when its processing began, and    *)
(*                whether a store write failed                             *)
(***************************************************************************)
VARIABLES users, now, last, wpc, dbLock, txn, wret, incrBase,
          pc, left, nbatches, cur, res, errMsg, rpt, faults, stopCause,
          calls, execs, opStart, faulted

storeVars == <<users, now>>
incrVars == <<wpc, dbLock, txn, wret, incrBase>>
loopVars == <<pc, left, nbatches, cur, res, errMsg, rpt, faults, stopCause,
              calls, execs, opStart, faulted>>
vars == <<users, now, last, wpc, dbLock, txn, wret, incrBase,
          pc, left, nbatches, cur, res, errMsg, rpt, faults, stopCause,
          calls, execs, opStart, faulted>>

Workers == 1..NWorkers
NoWorker == 0
IncrIdle == [w \in Workers |-> "idle"]

NoOperation == [_id |-> "none"]
NoResult == [kind |-> "none"]
NoReport ==
  [name |-> "none", id |-> "none", msg |-> <<>>, max |-> 0, attempt |-> 0,
   waits |-> 0, ack |-> "none", ret |-> "none", ctx |-> "none"]

\* The loop before main() starts it.
LoopIdle ==
  /\ pc = "off"
  /\ left = 0
  /\ nbatches = 0
  /\ cur = NoOperation
  /\ res = NoResult
  /\ errMsg = <<>>
  /\ rpt = NoReport
  /\ faults = 0
  /\ stopCause = "none"
  /\ calls = <<>>
  /\ execs = 0
  /\ opStart = <<>>
  /\ faulted = FALSE

NoCall == [op |-> "none"]

\* Text arguments a caller passes to update_status.
LinkX == <<"https://x">>
ErrorX == <<"X">>
InterruptedText == <<"Interrupted by user">>

\* The (status, recording_link, error_message) arguments update_status is
\* called with by the engines.
UpdateStatusArgs ==
  {<<PROCESSING, Null, Null>>, <<COMPLETED, LinkX, Null>>,
   <<COMPLETED, Null, Null>>, <<FAILED, Null, ErrorX>>,
   <<PENDING, Null, InterruptedText>>}
MaxRetriesArgs == {MaxRetryCount - 1, MaxRetryCount}
DaysArgs == {0, 1}

(***************************************************************************)
(* SpecStore: one caller makes any sequence of LocalDB calls; every call   *)
(* opens its own connection, runs its statements and commits.              *)
(***************************************************************************)
InitStore ==
  /\ users = <<>>
  /\ now = 0
  /\ last = NoCall
  /\ wpc = IncrIdle
  /\ dbLock = NoWorker
  /\ txn = [w \in Workers |-> <<>>]
  /\ wret = [w \in Workers |-> 0]
  /\ incrBase = 0
  /\ LoopIdle

Tick ==
  /\ now < MaxTime
  /\ now' = now + 1
  /\ last' = NoCall
  /\ UNCHANGED users

StoreAddUser(s) ==
  /\ users' = AddUser(users, s, UserDoc(s).clientCode, UserDoc(s).firstName,
                      UserDoc(s).lastName, now)
  /\ last' = NoCall
  /\ UNCHANGED now

StoreUpdateStatus(s, status, recording_link, error_message) ==
  /\ users' = UpdateStatus(users, s, status, recording_link, error_message, now)
  /\ last' = NoCall
  /\ UNCHANGED now

\* increment_retry raises (fetchone() is None) when there is no row; the
\* transaction is then never committed.
StoreIncrementRetry(s) ==
  /\ HasRow(users, s)
  /\ GetUser(users, s).retry_count < MaxRetryCount
  /\ users' = IncrementRetry(users, s, now)
  /\ last' = NoCall
  /\ UNCHANGED now

StoreResetUser(s) ==
  /\ users' = ResetUser(users, s, now)
  /\ last' = NoCall
  /\ UNCHANGED now

StoreCleanupOldRecords(days) ==
  /\ users' = CleanupOldRecords(users, days, now)
  /\ last' = [op |-> "cleanup_old_records", arg |-> days,
              result |-> CleanupDeleted(users, days, now)]
  /\ UNCHANGED now

StoreGetFailedUsers(max_retries) ==
  /\ \E rows \in GetFailedUsers(users, max_retries) :
       last' = [op |-> "get_failed_users", arg |-> max_retries, result |-> rows]
  /\ UNCHANGED storeVars

NextStore ==
  \/ Tick
  \/ \E s \in Subjects : StoreAddUser(s)
  \/ \E s \in Subjects, a \in UpdateStatusArgs :
       StoreUpdateStatus(s, a[1], a[2], a[3])
  \/ \E s \in Subjects : StoreIncrementRetry(s)
  \/ \E s \in Subjects : StoreResetUser(s)
  \/ \E days \in DaysArgs : StoreCleanupOldRecords(days)
  \/ \E m \in MaxRetriesArgs : StoreGetFailedUsers(m)

SpecStore == InitStore /\ [][NextStore /\ UNCHANGED <<incrVars, loopVars>>]_vars

(***************************************************************************)
(* SpecIncr: NWorkers callers (threads or processes sharing the database   *)
(* file) each make one increment_retry call on the record of IncrSubject.  *)
(* A call is sqlite3.connect, the UPDATE, the SELECT, commit and close.    *)
(* The sqlite3 module opens a transaction before the UPDATE; the UPDATE    *)
(* takes SQLite's write lock, for which a second writer waits, and works   *)
(* on the connection's own copy of the table, which the commit publishes.  *)
(***************************************************************************)
IncrSubject == "s1"

IncrTables ==
  LET t0 == AddUser(<<>>, IncrSubject, UserDoc(IncrSubject).clientCode,
                    UserDoc(IncrSubject).firstName, UserDoc(IncrSubject).lastName, 0)
      t1 == UpdateStatus(t0, IncrSubject, PROCESSING, Null, Null, 0)
  IN {t0, t1, IncrementRetry(t1, IncrSubject, 0)}

InitIncr ==
  /\ users \in IncrTables
  /\ now = 0
  /\ last = NoCall
  /\ wpc = IncrIdle
  /\ dbLock = NoWorker
  /\ txn = [w \in Workers |-> <<>>]
  /\ wret = [w \in Workers |-> 0]
  /\ incrBase = GetUser(users, IncrSubject).retry_count
  /\ LoopIdle

\* sqlite3.connect
IncrConnect(w) ==
  /\ wpc[w] = "idle"
  /\ wpc' = [wpc EXCEPT ![w] = "connected"]
  /\ UNCHANGED <<users, now, last, dbLock, txn, wret, incrBase>>

\* A lost-update variant: the statement reads the committed table and
\* writes without holding the write lock.
IncrUpdateNoLock(w) ==
  /\ wpc[w] = "connected"
  /\ txn' = [txn EXCEPT ![w] = IncrementRetry(users, IncrSubject, now)]
  /\ wpc' = [wpc EXCEPT ![w] = "updated"]
  /\ UNCHANGED <<users, now, last, dbLock, wret, incrBase>>

\* UPDATE users SET retry_count = retry_count + 1 ...
IncrUpdate(w) ==
  /\ wpc[w] = "connected"
  /\ dbLock = NoWorker
  /\ dbLock' = w
  /\ txn' = [txn EXCEPT ![w] = IncrementRetry(users, IncrSubject, now)]
  /\ wpc' = [wpc EXCEPT ![w] = "updated"]
  /\ UNCHANGED <<users, now, last, wret, incrBase>>

\* SELECT retry_count ..., read inside the connection's transaction
IncrSelect(w) ==
  /\ wpc[w] = "updated"
  /\ wret' = [wret EXCEPT ![w] = GetUser(txn[w], IncrSubject).retry_count]
  /\ wpc' = [wpc EXCEPT ![w] = "selected"]
  /\ UNCHANGED <<users, now, last, dbLock, txn, incrBase>>

\* conn.commit()
IncrCommit(w) ==
  /\ wpc[w] = "selected"
  /\ users' = txn[w]
  /\ dbLock' = IF dbLock = w THEN NoWorker ELSE dbLock
  /\ wpc' = [wpc EXCEPT ![w] = "committed"]
  /\ UNCHANGED <<now, last, txn, wret, incrBase>>

\* conn.close(); return retry_count
IncrClose(w) ==
  /\ wpc[w] = "committed"
  /\ wpc' = [wpc EXCEPT ![w] = "returned"]
  /\ UNCHANGED <<users, now, last, dbLock, txn, wret, incrBase>>

NextIncr ==
  \E w \in Workers :
    \/ IncrConnect(w)
    \/ IncrUpdate(w)
    \/ IncrSelect(w)
    \/ IncrCommit(w)
    \/ IncrClose(w)

SpecIncr == InitIncr /\ [][NextIncr /\ UNCHANGED loopVars]_vars

(***************************************************************************)
(* SpecWorkers: two workers (processes running the engine on one database  *)
(* file) each receive a create_user operation for the subject GateSubject, *)
(* whose record is absent, pending or failed.  Each runs lines 79-178 of    *)
(* process_create_user_operation; every LocalDB call is one connection,    *)
(* one statement and a commit, hence one step.  wpc is the worker's        *)
(* position and wret the number of times it invoked the executor.  The     *)
(* remote mutations, which do not touch the store, are left out.           *)
(***************************************************************************)
GateWorkers == {1, 2}
GateSubject == "s1"

GateTables ==
  LET u == UserDoc(GateSubject)
      t0 == AddUser(<<>>, u._id, u.clientCode, u.firstName, u.lastName, 0)
      t1 == UpdateStatus(t0, u._id, PROCESSING, Null, Null, 0)
  IN {<<>>, t0, UpdateStatus(t1, u._id, FAILED, Null, ErrorX, 0)}

InitWorkers ==
  /\ users \in GateTables
  /\ now = 0
  /\ last = NoCall
  /\ wpc = IncrIdle
  /\ dbLock = NoWorker
  /\ txn = [w \in Workers |-> <<>>]
  /\ wret = [w \in Workers |-> 0]
  /\ incrBase = 0
  /\ LoopIdle

\* process_operation hands the operation to process_create_user_operation.
GateReceive(w) ==
  /\ wpc[w] = "idle"
  /\ wpc' = [wpc EXCEPT ![w] = "gate"]
  /\ UNCHANGED <<users, wret>>

\* Line 79: db.is_user_processed(user_id); lines 82-86 acknowledge and return.
GateCheck(w) ==
  /\ wpc[w] = "gate"
  /\ wpc' = [wpc EXCEPT ![w] = IF IsUserProcessed(users, GateSubject)
                                THEN "returned" ELSE "get"]
  /\ UNCHANGED <<users, wret>>

\* Lines 89-90: db.get_user(user_id).
GateGetUser(w) ==
  /\ wpc[w] = "get"
  /\ wpc' = [wpc EXCEPT ![w] = IF HasRow(users, GateSubject) THEN "mark" ELSE "add"]
  /\ UNCHANGED <<users, wret>>

\* Line 91: db.add_user(...).
GateAddUser(w) ==
  /\ wpc[w] = "add"
  /\ users' = AddUser(users, GateSubject, UserDoc(GateSubject).clientCode,
                      UserDoc(GateSubject).firstName,
                      UserDoc(GateSubject).lastName, now)
  /\ wpc' = [wpc EXCEPT ![w] = "mark"]
  /\ UNCHANGED wret

\* Line 94: db.update_status(user_id, UserStatus.PROCESSING).
GateMark(w) ==
  /\ wpc[w] = "mark"
  /\ users' = UpdateStatus(users, GateSubject, PROCESSING, Null, Null, now)
  /\ wpc' = [wpc EXCEPT ![w] = "exec"]
  /\ UNCHANGED wret

\* Lines 133-137: the executor, which returns a link or raises.
GateExec(w) ==
  /\ wpc[w] = "exec"
  /\ wret' = [wret EXCEPT ![w] = @ + 1]
  /\ \E ok \in BOOLEAN :
       wpc' = [wpc EXCEPT ![w] = IF ok THEN "link" ELSE "raised"]
  /\ UNCHANGED users

\* Lines 147 and 151: db.update_status(user_id, COMPLETED, recording_link).
GateCompleted(w) ==
  /\ wpc[w] = "link"
  /\ users' = UpdateStatus(users, GateSubject, COMPLETED, LinkX, Null, now)
  /\ wpc' = [wpc EXCEPT ![w] = "returned"]
  /\ UNCHANGED wret

\* Line 178: db.update_status(user_id, FAILED, error_message).
GateFailed(w) ==
  /\ wpc[w] = "raised"
  /\ users' = UpdateStatus(users, GateSubject, FAILED, Null, ErrorX, now)
  /\ wpc' = [wpc EXCEPT ![w] = "returned"]
  /\ UNCHANGED wret

NextWorkers ==
  \E w \in GateWorkers :
    \/ GateReceive(w)
    \/ GateCheck(w)
    \/ GateGetUser(w)
    \/ GateAddUser(w)
    \/ GateMark(w)
    \/ GateExec(w)
    \/ GateCompleted(w)
    \/ GateFailed(w)

SpecWorkers ==
  InitWorkers /\ [][NextWorkers /\ UNCHANGED <<now, last, dbLock, txn, incrBase,
                                                loopVars>>]_vars

(***************************************************************************)
(* Spec: the unified sync engine.  sync_loop receives batches of operation *)
(* documents from the subscription and hands every pending one to          *)
(* process_operation; one action is one call the code makes (a store call, *)
(* a remote mutation, an executor) with the outcomes that call can have.   *)
(* The clock stands still: a run of the loop is short against a tick, and  *)
(* the dispatcher reads no timestamp.  A store write may fail (MaxFaults    *)
(* times in a behaviour); reads do not fail.  One interrupt may arrive,    *)
(* and the process may be started again on the table it left.              *)
(***************************************************************************)
ReportMaxRetries == 3
MaxFaults == 1
MaxReportArg == 4

\* An operation document; missing names the fields the document lacks.
OpDoc(id, type, status, s, missing) ==
  [_id |-> id, operationType |-> type, status |-> status, user |-> UserDoc(s),
   missing |-> missing]

Operations ==
  {OpDoc("o1", "create_user", "pending", "s1", {}),
   OpDoc("o2", "create_user", "pending", "s2", {}),
   OpDoc("o3", "get_mind_report", "pending", "s1", {}),
   OpDoc("o4", "delete_user_v2", "pending", "s2", {}),
   OpDoc("o5", "create_user", "processing", "s2", {}),
   OpDoc("o6", "create_user", "pending", "s1", {"_id"}),
   OpDoc("o7", "get_mind_report", "pending", "s2", {"user"}),
   OpDoc("o8", "create_user", "pending", "s2", {"user.clientCode"})}

Has(op, field) == field \notin op.missing

WellFormed(op) == op.missing = {}

\* Exceptions and str(e).
KeyError(field) == [type |-> "KeyError", msg |-> <<"'", field, "'">>]
DbError == [type |-> "OperationalError", msg |-> <<"database is locked">>]
ExecutorError == [type |-> "Exception", msg |-> ErrorX]
MutationError == [type |-> "Exception", msg |-> <<"mutation failed">>]
Str(e) == e.msg

\* Whether a text contains a token.
Contains(text, token) == \E i \in DOMAIN text : text[i] = token

\* str.strip(): leading and trailing blanks removed.
RECURSIVE StripLeft(_)
StripLeft(text) ==
  IF text # <<>> /\ Head(text) = " " THEN StripLeft(Tail(text)) ELSE text

RECURSIVE StripRight(_)
StripRight(text) ==
  IF text # <<>> /\ text[Len(text)] = " "
  THEN StripRight(SubSeq(text, 1, Len(text) - 1)) ELSE text

Strip(text) == StripRight(StripLeft(text))

\* Python truth of an optional text.
Truthy(text) == text # Null /\ text # <<>>

\* What create_user may return or raise.
ExecutorOutcomes ==
  {[kind |-> "return", value |-> LinkX], [kind |-> "return", value |-> Null],
   [kind |-> "return", value |-> <<>>], [kind |-> "return", value |-> <<" ">>],
   [kind |-> "return", value |-> <<" ">> \o LinkX],
   [kind |-> "raise", exc |-> ExecutorError]}

EmptyLinkMsg == <<"Failed to get recording link (empty or None)">>
UnknownTypeMsg(type) == <<"Unknown operation type", ": ", type>>
CriticalMsg(e) == <<"CRITICAL_ERROR_IN_PROCESSING: ">> \o Str(e)
MysqlExistsMsg(code) ==
  <<"Patient already exists in MySQL database (PatientCode: ">> \o code \o <<")">>

\* A remote mutation as it was made: its name, the operationId or userId it
\* names, the status it carries, its text payload (errorReason,
\* recordingLink or fileLink), and whether it succeeded.
Mutation(name, id, status, payload, ok) ==
  [name |-> name, id |-> id, status |-> status, payload |-> payload, ok |-> ok]

otherVars == <<last, wpc, dbLock, txn, wret, incrBase>>

\* The store file an earlier run of the loop left: that run created s2
\* (lines 88-94, 147), and has not seen s1.
EarlierRun ==
  LET u == UserDoc("s2")
      added == AddUser(<<>>, u._id, u.clientCode, u.firstName, u.lastName, 0)
      marked == UpdateStatus(added, u._id, PROCESSING, Null, Null, 0)
  IN UpdateStatus(marked, u._id, COMPLETED, LinkX, Null, 0)

Init ==
  /\ users = EarlierRun
  /\ now = 0
  /\ last = NoCall
  /\ wpc = IncrIdle
  /\ dbLock = NoWorker
  /\ txn = [w \in Workers |-> <<>>]
  /\ wret = [w \in Workers |-> 0]
  /\ incrBase = 0
  /\ pc = "wait"
  /\ left = 0
  /\ nbatches = 0
  /\ cur = NoOperation
  /\ res = NoResult
  /\ errMsg = <<>>
  /\ rpt = NoReport
  /\ faults = 0
  /\ stopCause = "none"
  /\ calls = <<>>
  /\ execs = 0
  /\ opStart = <<>>
  /\ faulted = FALSE

\* A call of report_error_to_server: the mutation it makes and the id it
\* names, error_msg, max_retries; the attempts made and the waits taken so
\* far; its return value once it has returned; ret is where its caller goes
\* on, ctx the handler region the call is made in.
ReportCall(name, id, msg, max, ret, ctx) ==
  [name |-> name, id |-> id, msg |-> msg, max |-> max, attempt |-> 0,
   waits |-> 0, ack |-> "none", ret |-> ret, ctx |-> ctx]

\* The dispatcher calls report_error_to_server(client, operation_id,
\* error_msg), max_retries left at its default.
StartReport(msg, ret, ctx) ==
  /\ pc' = "rpt"
  /\ rpt' = ReportCall("operations:updateOperationStatus", cur._id, msg,
                       ReportMaxRetries, ret, ctx)

\* An exception other than an interrupt leaves process_create_user_operation
\* or process_get_mind_report_operation: process_operation's handler
\* reports it.
RaiseToProcessOperation(e) ==
  StartReport(CriticalMsg(e), "sleep", "po_handler")

\* for operations in client.subscribe(...): the remote side pushes a batch.
\* left is the length of the batch; the loop reads nothing of a document
\* before it reaches it, so the documents are drawn then.
ReceiveBatch ==
  /\ pc = "wait"
  /\ nbatches < MaxBatches
  /\ \E n \in 0..MaxBatchLen : left' = n
  /\ nbatches' = nbatches + 1
  /\ pc' = "loop"
  /\ UNCHANGED <<storeVars, otherVars, cur, res, errMsg, rpt, faults, stopCause,
                 calls, execs, opStart, faulted>>

\* The batch is empty or exhausted: back to the subscription.
EndOfBatch ==
  /\ pc = "loop"
  /\ left = 0
  /\ pc' = "wait"
  /\ UNCHANGED <<storeVars, otherVars, left, nbatches, cur, res, errMsg, rpt,
                 faults, stopCause, calls, execs, opStart, faulted>>

\* A variant that takes the next operation of the batch while the report of
\* the one before is still being sent.
NextOperationEager ==
  /\ pc \in {"loop", "rpt"}
  /\ left > 0
  /\ \E op \in Operations :
       IF ~Has(op, "_id") \/ ~Has(op, "operationType")
       THEN /\ pc' = "stopped"
            /\ stopCause' = "error"
            /\ UNCHANGED <<left, cur, opStart>>
       ELSE IF op.status # "pending"
       THEN /\ pc' = "skip"
            /\ left' = left - 1
            /\ UNCHANGED <<stopCause, cur, opStart>>
       ELSE /\ pc' = "dispatch"
            /\ left' = left - 1
            /\ cur' = op
            /\ opStart' = users
            /\ UNCHANGED stopCause
  /\ UNCHANGED <<storeVars, otherVars, nbatches, res, errMsg, rpt, faults,
                 calls, execs, faulted>>

\* A variant of the loop head without the check of the status.
NextOperationAnyStatus ==
  /\ pc = "loop"
  /\ left > 0
  /\ \E op \in Operations :
       IF ~Has(op, "_id") \/ ~Has(op, "operationType")
       THEN /\ pc' = "stopped"
            /\ stopCause' = "error"
            /\ UNCHANGED <<left, cur, opStart>>
       ELSE /\ pc' = "dispatch"
            /\ left' = left - 1
            /\ cur' = op
            /\ opStart' = users
            /\ UNCHANGED stopCause
  /\ UNCHANGED <<storeVars, otherVars, nbatches, res, errMsg, rpt, faults,
                 calls, execs, faulted>>

\* for operation in operations: the head of the loop body.  The fields _id
\* and operationType are read outside the inner try: a missing one raises
\* KeyError into sync_loop's outer handler, which ends the loop.  An
\* operation whose status is not "pending" goes to the continue of line 405.
NextOperation ==
  /\ pc = "loop"
  /\ left > 0
  /\ \E op \in Operations :
       IF ~Has(op, "_id") \/ ~Has(op, "operationType")
       THEN /\ pc' = "stopped"
            /\ stopCause' = "error"
            /\ UNCHANGED <<left, cur, opStart>>
       ELSE IF op.status # "pending"
       THEN /\ pc' = "skip"
            /\ left' = left - 1
            /\ UNCHANGED <<stopCause, cur, opStart>>
       ELSE /\ pc' = "dispatch"
            /\ left' = left - 1
            /\ cur' = op
            /\ opStart' = users
            /\ UNCHANGED stopCause
  /\ UNCHANGED <<storeVars, otherVars, nbatches, res, errMsg, rpt, faults,
                 calls, execs, faulted>>

\* Line 405: continue; the operation passed over is not kept.
SkipOperation ==
  /\ pc = "skip"
  /\ pc' = "loop"
  /\ UNCHANGED <<storeVars, otherVars, left, nbatches, cur, res, errMsg, rpt,
                 faults, stopCause, calls, execs, opStart, faulted>>

\* A variant that skips an operation of a type it does not know.
DispatchUnknownIgnored ==
  /\ pc = "dispatch"
  /\ IF ~Has(cur, "user")
     THEN pc' = "sleep"
     ELSE IF cur.operationType = "create_user"
     THEN pc' = "cu_start"
     ELSE IF cur.operationType = "get_mind_report"
     THEN pc' = "gm_start"
     ELSE pc' = "sleep"
  /\ UNCHANGED <<storeVars, otherVars, left, nbatches, cur, res, errMsg, rpt,
                 faults, stopCause, calls, execs, opStart, faulted>>

\* process_operation: operation["user"] is read outside its try, so a
\* missing user raises KeyError to sync_loop's inner handler, which logs it
\* and goes on to the sleep.
Dispatch ==
  /\ pc = "dispatch"
  /\ IF ~Has(cur, "user")
     THEN pc' = "sleep" /\ UNCHANGED rpt
     ELSE IF cur.operationType = "create_user"
     THEN pc' = "cu_start" /\ UNCHANGED rpt
     ELSE IF cur.operationType = "get_mind_report"
     THEN pc' = "gm_start" /\ UNCHANGED rpt
     ELSE StartReport(UnknownTypeMsg(cur.operationType), "sleep", "po_try")
  /\ UNCHANGED <<storeVars, otherVars, left, nbatches, cur, res, errMsg,
                 faults, stopCause, calls, execs, opStart, faulted>>

\* time.sleep(3) after an operation; the operation's history ends here.
Sleep ==
  /\ pc = "sleep"
  /\ pc' = "loop"
  /\ cur' = NoOperation
  /\ res' = NoResult
  /\ errMsg' = <<>>
  /\ rpt' = NoReport
  /\ calls' = <<>>
  /\ execs' = 0
  /\ opStart' = <<>>
  /\ faulted' = FALSE
  /\ UNCHANGED <<storeVars, otherVars, left, nbatches, faults, stopCause>>

\* A variant that goes on to the next attempt after a successful one.
ReportAttemptNoStop ==
  /\ pc = "rpt"
  /\ rpt.attempt < rpt.max
  /\ \E ok \in BOOLEAN :
       /\ calls' = Append(calls, Mutation(rpt.name, rpt.id, "failed", rpt.msg, ok))
       /\ IF rpt.attempt >= rpt.max - 1
          THEN /\ pc' = rpt.ret
               /\ rpt' = [rpt EXCEPT !.attempt = @ + 1, !.ret = "none",
                                     !.ack = IF ok THEN "true" ELSE "false"]
          ELSE /\ pc' = "rpt"
               /\ rpt' = [rpt EXCEPT !.attempt = @ + 1, !.waits = @ + 1]
  /\ UNCHANGED <<storeVars, otherVars, left, nbatches, cur, res, errMsg,
                 faults, stopCause, execs, opStart, faulted>>

\* A variant that waits after the last failed attempt too.
ReportAttemptWaitsAlways ==
  /\ pc = "rpt"
  /\ rpt.attempt < rpt.max
  /\ \E ok \in BOOLEAN :
       /\ calls' = Append(calls, Mutation(rpt.name, rpt.id, "failed", rpt.msg, ok))
       /\ IF ok
          THEN /\ pc' = rpt.ret
               /\ rpt' = [rpt EXCEPT !.attempt = @ + 1, !.ack = "true", !.ret = "none"]
          ELSE IF rpt.attempt < rpt.max - 1
          THEN /\ pc' = "rpt"
               /\ rpt' = [rpt EXCEPT !.attempt = @ + 1, !.waits = @ + 1]
          ELSE /\ pc' = rpt.ret
               /\ rpt' = [rpt EXCEPT !.attempt = @ + 1, !.waits = @ + 1,
                                     !.ack = "false", !.ret = "none"]
  /\ UNCHANGED <<storeVars, otherVars, left, nbatches, cur, res, errMsg,
                 faults, stopCause, execs, opStart, faulted>>

\* report_error_to_server, one turn of its loop: the mutation is attempted;
\* if it succeeds the function returns True; after a failed attempt that is
\* not the last it waits 1.0 s and goes round; after the last it returns
\* False.
ReportAttempt ==
  /\ pc = "rpt"
  /\ rpt.attempt < rpt.max
  /\ \E ok \in BOOLEAN :
       /\ calls' = Append(calls, Mutation(rpt.name, rpt.id, "failed", rpt.msg, ok))
       /\ IF ok
          THEN /\ pc' = rpt.ret
               /\ rpt' = [rpt EXCEPT !.attempt = @ + 1, !.ack = "true", !.ret = "none"]
          ELSE IF rpt.attempt < rpt.max - 1
          THEN /\ pc' = "rpt"
               /\ rpt' = [rpt EXCEPT !.attempt = @ + 1, !.waits = @ + 1]
          ELSE /\ pc' = rpt.ret
               /\ rpt' = [rpt EXCEPT !.attempt = @ + 1, !.ack = "false", !.ret = "none"]
  /\ UNCHANGED <<storeVars, otherVars, left, nbatches, cur, res, errMsg,
                 faults, stopCause, execs, opStart, faulted>>

\* Line 59: the loop made no turn (max_retries is not positive).
ReportNoAttempt ==
  /\ pc = "rpt"
  /\ rpt.attempt >= rpt.max
  /\ pc' = rpt.ret
  /\ rpt' = [rpt EXCEPT !.ack = "false", !.ret = "none"]
  /\ UNCHANGED <<storeVars, otherVars, left, nbatches, cur, res, errMsg,
                 faults, stopCause, calls, execs, opStart, faulted>>

(***************************************************************************)
(* SpecReport: a caller calls report_error_to_server, of either engine,    *)
(* with any max_retries up to MaxReportArg; each upstream attempt succeeds *)
(* or raises.                                                              *)
(***************************************************************************)
\* The two engines' reporters: the mutation each makes.
ReportMutations == {"operations:updateOperationStatus", "user:updateMindReportStatus"}

\* The ids and messages the callers pass.
ReportIds == {"o1", "s1"}
ReportMsgs == {ErrorX, EmptyLinkMsg}

InitReport ==
  /\ users = <<>>
  /\ now = 0
  /\ last = NoCall
  /\ wpc = IncrIdle
  /\ dbLock = NoWorker
  /\ txn = [w \in Workers |-> <<>>]
  /\ wret = [w \in Workers |-> 0]
  /\ incrBase = 0
  /\ LoopIdle

\* report_error_to_server(client, id, msg, max_retries) is called.
ReportEnter(name, id, msg, max) ==
  /\ pc = "off"
  /\ pc' = "rpt"
  /\ rpt' = ReportCall(name, id, msg, max, "off", "caller")
  /\ calls' = <<>>
  /\ UNCHANGED <<storeVars, otherVars, left, nbatches, cur, res, errMsg,
                 faults, stopCause, execs, opStart, faulted>>

NextReport ==
  \/ \E name \in ReportMutations, id \in ReportIds, msg \in ReportMsgs,
        max \in 0..MaxReportArg : ReportEnter(name, id, msg, max)
  \/ ReportAttempt
  \/ ReportNoAttempt

SpecReport == InitReport /\ [][NextReport]_vars

(***************************************************************************)
(* process_create_user_operation.                                          *)
(***************************************************************************)
\* A store write commits tbl, or fails: the call raises and the table is
\* as before.
StoreWriteOk(tbl) ==
  /\ users' = tbl
  /\ UNCHANGED <<faults, faulted>>

StoreWriteFails ==
  /\ faults < MaxFaults
  /\ faults' = faults + 1
  /\ faulted' = TRUE
  /\ UNCHANGED users

\* One remote mutation, which succeeds or raises.
Remote(name, id, status, payload, ok) ==
  calls' = Append(calls, Mutation(name, id, status, payload, ok))

\* Lines 72-86: the user's fields are read, then the idempotency gate.
CuStart ==
  /\ pc = "cu_start"
  /\ IF ~Has(cur, "user.clientCode")
     THEN RaiseToProcessOperation(KeyError("clientCode"))
     ELSE /\ pc' = IF IsUserProcessed(users, cur.user._id) THEN "cu_ack" ELSE "cu_add"
          /\ UNCHANGED rpt
  /\ UNCHANGED <<storeVars, otherVars, left, nbatches, cur, res, errMsg,
                 faults, stopCause, calls, execs, opStart, faulted>>

\* A variant in which the skip of a completed subject goes straight back to
\* the loop head.
CuAckSkipsSleep ==
  /\ pc = "cu_ack"
  /\ \E ok \in BOOLEAN :
       Remote("operations:completeOperation", cur._id, "", <<>>, ok)
  /\ pc' = "loop"
  /\ UNCHANGED <<storeVars, otherVars, left, nbatches, cur, res, errMsg, rpt,
                 faults, stopCause, execs, opStart, faulted>>

\* Lines 82-86: already processed locally; acknowledge and return.
CuAck ==
  /\ pc = "cu_ack"
  /\ \E ok \in BOOLEAN :
       Remote("operations:completeOperation", cur._id, "", <<>>, ok)
  /\ pc' = "sleep"
  /\ UNCHANGED <<storeVars, otherVars, left, nbatches, cur, res, errMsg, rpt,
                 faults, stopCause, execs, opStart, faulted>>

\* A variant that goes from the add to the upstream report without the
\* write of line 94.
CuAddSkipsMark ==
  /\ pc = "cu_add"
  /\ \/ /\ StoreWriteOk(IF HasRow(users, cur.user._id) THEN users
                        ELSE AddUser(users, cur.user._id, cur.user.clientCode,
                                     cur.user.firstName, cur.user.lastName, now))
        /\ pc' = "cu_rep1"
        /\ UNCHANGED rpt
     \/ /\ ~HasRow(users, cur.user._id)
        /\ StoreWriteFails
        /\ RaiseToProcessOperation(DbError)
  /\ UNCHANGED <<now, otherVars, left, nbatches, cur, res, errMsg,
                 stopCause, calls, execs, opStart>>

\* Lines 88-91: add the subject when the store has no record of it.
CuAdd ==
  /\ pc = "cu_add"
  /\ \/ /\ StoreWriteOk(IF HasRow(users, cur.user._id) THEN users
                        ELSE AddUser(users, cur.user._id, cur.user.clientCode,
                                     cur.user.firstName, cur.user.lastName, now))
        /\ pc' = "cu_mark"
        /\ UNCHANGED rpt
     \/ /\ ~HasRow(users, cur.user._id)
        /\ StoreWriteFails
        /\ RaiseToProcessOperation(DbError)
  /\ UNCHANGED <<now, otherVars, left, nbatches, cur, res, errMsg,
                 stopCause, calls, execs, opStart>>

\* A variant in which a failed write is swallowed and the function goes on.
CuMarkSwallowsFailure ==
  /\ pc = "cu_mark"
  /\ \/ StoreWriteOk(UpdateStatus(users, cur.user._id, PROCESSING, Null, Null, now))
     \/ StoreWriteFails
  /\ pc' = "cu_rep1"
  /\ UNCHANGED <<now, otherVars, left, nbatches, cur, res, errMsg, rpt,
                 stopCause, calls, execs, opStart>>

\* Line 94: mark as processing.
CuMark ==
  /\ pc = "cu_mark"
  /\ \/ /\ StoreWriteOk(UpdateStatus(users, cur.user._id, PROCESSING, Null, Null, now))
        /\ pc' = "cu_rep1"
        /\ UNCHANGED rpt
     \/ /\ StoreWriteFails
        /\ RaiseToProcessOperation(DbError)
  /\ UNCHANGED <<now, otherVars, left, nbatches, cur, res, errMsg,
                 stopCause, calls, execs, opStart>>

\* Lines 97-107: the two 'processing' mutations, best effort.
\* A variant in which a failed 'processing' mutation leaves the function.
CuRep1Raises ==
  /\ pc = "cu_rep1"
  /\ \E ok \in BOOLEAN :
       /\ Remote("operations:updateOperationStatus", cur._id, "processing", <<>>, ok)
       /\ IF ok
          THEN pc' = "cu_rep2" /\ UNCHANGED rpt
          ELSE RaiseToProcessOperation(MutationError)
  /\ UNCHANGED <<storeVars, otherVars, left, nbatches, cur, res, errMsg,
                 faults, stopCause, execs, opStart, faulted>>

CuRep1 ==
  /\ pc = "cu_rep1"
  /\ \E ok \in BOOLEAN :
       /\ Remote("operations:updateOperationStatus", cur._id, "processing", <<>>, ok)
       /\ pc' = IF ok THEN "cu_rep2" ELSE "cu_mysql"
  /\ UNCHANGED <<storeVars, otherVars, left, nbatches, cur, res, errMsg, rpt,
                 faults, stopCause, execs, opStart, faulted>>

CuRep2 ==
  /\ pc = "cu_rep2"
  /\ \E ok \in BOOLEAN :
       Remote("user:updateSyncStatus", cur.user._id, "processing", <<>>, ok)
  /\ pc' = "cu_mysql"
  /\ UNCHANGED <<storeVars, otherVars, left, nbatches, cur, res, errMsg, rpt,
                 faults, stopCause, execs, opStart, faulted>>

\* check_patient_exists: what the query of the patientt table comes to, and
\* the value returned; the function catches its own errors and returns
\* False for them.
MysqlOutcomes == {"found", "not found", "error"}
CheckPatientExists(outcome) == outcome = "found"

\* Line 115: check_patient_exists.
CuMysql ==
  /\ pc = "cu_mysql"
  /\ \E o \in MysqlOutcomes :
       LET exists == CheckPatientExists(o)
       IN /\ pc' = IF exists THEN "cu_my1" ELSE "cu_exec"
          /\ res' = IF exists THEN [kind |-> "exists"] ELSE res
  /\ UNCHANGED <<storeVars, otherVars, left, nbatches, cur, errMsg, rpt,
                 faults, stopCause, calls, execs, opStart, faulted>>

\* A variant in which a failed mutation ends the pre-check's branch.
CuMy1FailureSkipsRecord ==
  /\ pc = "cu_my1"
  /\ \E ok \in BOOLEAN :
       /\ Remote("user:updateSyncStatus", cur.user._id, "completed",
                 MysqlExistsMsg(cur.user.clientCode), ok)
       /\ pc' = IF ok THEN "cu_my2" ELSE "sleep"
  /\ UNCHANGED <<storeVars, otherVars, left, nbatches, cur, res, errMsg, rpt,
                 faults, stopCause, execs, opStart, faulted>>

\* Lines 117-125: the patient exists; the two 'completed' mutations.
CuMy1 ==
  /\ pc = "cu_my1"
  /\ \E ok \in BOOLEAN :
       /\ Remote("user:updateSyncStatus", cur.user._id, "completed",
                 MysqlExistsMsg(cur.user.clientCode), ok)
       /\ pc' = IF ok THEN "cu_my2" ELSE "cu_mydb"
  /\ UNCHANGED <<storeVars, otherVars, left, nbatches, cur, res, errMsg, rpt,
                 faults, stopCause, execs, opStart, faulted>>

CuMy2 ==
  /\ pc = "cu_my2"
  /\ \E ok \in BOOLEAN :
       Remote("operations:completeOperation", cur._id, "", <<>>, ok)
  /\ pc' = "cu_mydb"
  /\ UNCHANGED <<storeVars, otherVars, left, nbatches, cur, res, errMsg, rpt,
                 faults, stopCause, execs, opStart, faulted>>

\* A variant without the return of line 127.
CuMyDbFallsThrough ==
  /\ pc = "cu_mydb"
  /\ \/ /\ StoreWriteOk(UpdateStatus(users, cur.user._id, COMPLETED, Null, Null, now))
        /\ pc' = "cu_exec"
     \/ /\ StoreWriteFails
        /\ pc' = "cu_exec"
  /\ UNCHANGED <<now, otherVars, left, nbatches, cur, res, errMsg, rpt,
                 stopCause, calls, execs, opStart>>

\* Line 126, inside the try of line 114: a failed write is caught by the
\* handler of line 128, which goes on with the creation.
CuMyDb ==
  /\ pc = "cu_mydb"
  /\ \/ /\ StoreWriteOk(UpdateStatus(users, cur.user._id, COMPLETED, Null, Null, now))
        /\ pc' = "sleep"
     \/ /\ StoreWriteFails
        /\ pc' = "cu_exec"
  /\ UNCHANGED <<now, otherVars, left, nbatches, cur, res, errMsg, rpt,
                 stopCause, calls, execs, opStart>>

\* A variant that tests the truth of the link as returned, without strip().
CuExecNoStrip ==
  /\ pc = "cu_exec"
  /\ execs' = execs + 1
  /\ \E o \in ExecutorOutcomes :
       IF o.kind = "raise"
       THEN /\ res' = [kind |-> "raise", value |-> Str(o.exc)]
            /\ errMsg' = Str(o.exc)
            /\ StartReport(Str(o.exc), "cu_fail", "cu_handler")
       ELSE IF Truthy(o.value)
       THEN /\ res' = [kind |-> "link", value |-> o.value]
            /\ pc' = "cu_link1"
            /\ UNCHANGED <<errMsg, rpt>>
       ELSE /\ res' = [kind |-> "empty", value |-> Null]
            /\ errMsg' = EmptyLinkMsg
            /\ StartReport(EmptyLinkMsg, "cu_fail_try", "cu_try")
  /\ UNCHANGED <<storeVars, otherVars, left, nbatches, cur, faults, stopCause,
                 calls, opStart, faulted>>

\* Lines 133-139 and 152-155, 174-177: the executor and what its result
\* leads to.
CuExec ==
  /\ pc = "cu_exec"
  /\ execs' = execs + 1
  /\ \E o \in ExecutorOutcomes :
       IF o.kind = "raise"
       THEN /\ res' = [kind |-> "raise", value |-> Str(o.exc)]
            /\ errMsg' = Str(o.exc)
            /\ StartReport(Str(o.exc), "cu_fail", "cu_handler")
       ELSE IF Truthy(o.value) /\ Truthy(Strip(o.value))
       THEN /\ res' = [kind |-> "link", value |-> o.value]
            /\ pc' = "cu_link1"
            /\ UNCHANGED <<errMsg, rpt>>
       ELSE /\ res' = [kind |-> "empty", value |-> Null]
            /\ errMsg' = EmptyLinkMsg
            /\ StartReport(EmptyLinkMsg, "cu_fail_try", "cu_try")
  /\ UNCHANGED <<storeVars, otherVars, left, nbatches, cur, faults, stopCause,
                 calls, opStart, faulted>>

\* Lines 141-146: the payload and completion mutations; a failure of either
\* goes to the handler of line 149.
CuLink1 ==
  /\ pc = "cu_link1"
  /\ \E ok \in BOOLEAN :
       /\ Remote("user:updateRecordingLink", cur.user._id, "", res.value, ok)
       /\ pc' = IF ok THEN "cu_link2" ELSE "cu_done2"
  /\ UNCHANGED <<storeVars, otherVars, left, nbatches, cur, res, errMsg, rpt,
                 faults, stopCause, execs, opStart, faulted>>

\* A variant that leaves out the completion mutation.
CuLink2Skipped ==
  /\ pc = "cu_link2"
  /\ pc' = "cu_done1"
  /\ UNCHANGED <<storeVars, otherVars, left, nbatches, cur, res, errMsg, rpt,
                 faults, stopCause, calls, execs, opStart, faulted>>

CuLink2 ==
  /\ pc = "cu_link2"
  /\ \E ok \in BOOLEAN :
       /\ Remote("operations:completeOperation", cur._id, "", <<>>, ok)
       /\ pc' = IF ok THEN "cu_done1" ELSE "cu_done2"
  /\ UNCHANGED <<storeVars, otherVars, left, nbatches, cur, res, errMsg, rpt,
                 faults, stopCause, execs, opStart, faulted>>

\* Line 147; a failed write is caught by the handler of line 149.
CuDone1 ==
  /\ pc = "cu_done1"
  /\ \/ /\ StoreWriteOk(UpdateStatus(users, cur.user._id, COMPLETED, res.value, Null, now))
        /\ pc' = "cu_end"
     \/ /\ StoreWriteFails
        /\ pc' = "cu_done2"
  /\ UNCHANGED <<now, otherVars, left, nbatches, cur, res, errMsg, rpt,
                 stopCause, calls, execs, opStart>>

\* A variant whose handler only logs the warning.
CuDone2LogsOnly ==
  /\ pc = "cu_done2"
  /\ pc' = "sleep"
  /\ UNCHANGED <<storeVars, otherVars, left, nbatches, cur, res, errMsg, rpt,
                 faults, stopCause, calls, execs, opStart, faulted>>

\* Line 151, in the handler of line 149; a failed write goes to the handler
\* of line 174.
CuDone2 ==
  /\ pc = "cu_done2"
  /\ \/ /\ StoreWriteOk(UpdateStatus(users, cur.user._id, COMPLETED, res.value, Null, now))
        /\ pc' = "cu_end"
        /\ UNCHANGED <<errMsg, rpt>>
     \/ /\ StoreWriteFails
        /\ errMsg' = Str(DbError)
        /\ StartReport(Str(DbError), "cu_fail", "cu_handler")
  /\ UNCHANGED <<now, otherVars, left, nbatches, cur, res,
                 stopCause, calls, execs, opStart>>

\* Line 156, after the report of line 155, still inside the try.
CuFailTry ==
  /\ pc = "cu_fail_try"
  /\ \/ /\ StoreWriteOk(UpdateStatus(users, cur.user._id, FAILED, Null, errMsg, now))
        /\ pc' = "cu_end"
        /\ UNCHANGED <<errMsg, rpt>>
     \/ /\ StoreWriteFails
        /\ errMsg' = Str(DbError)
        /\ StartReport(Str(DbError), "cu_fail", "cu_handler")
  /\ UNCHANGED <<now, otherVars, left, nbatches, cur, res,
                 stopCause, calls, execs, opStart>>

\* Lines 148-157: update_status has returned and control is still inside
\* the try of line 131 (the print of line 148, the way out of the block).
CuEnd ==
  /\ pc = "cu_end"
  /\ pc' = "sleep"
  /\ UNCHANGED <<storeVars, otherVars, left, nbatches, cur, res, errMsg, rpt,
                 faults, stopCause, calls, execs, opStart, faulted>>

\* A variant in which a report that was not accepted ends the handler.
CuFailOnlyWhenReported ==
  /\ pc = "cu_fail"
  /\ IF rpt.ack = "false"
     THEN pc' = "sleep" /\ UNCHANGED <<users, faults, faulted, rpt>>
     ELSE \/ /\ StoreWriteOk(UpdateStatus(users, cur.user._id, FAILED, Null, errMsg, now))
             /\ pc' = "sleep"
             /\ UNCHANGED rpt
          \/ /\ StoreWriteFails
             /\ RaiseToProcessOperation(DbError)
  /\ UNCHANGED <<now, otherVars, left, nbatches, cur, res, errMsg,
                 stopCause, calls, execs, opStart>>

\* Line 178, after the report of line 177, in the handler of line 174.
CuFail ==
  /\ pc = "cu_fail"
  /\ \/ /\ StoreWriteOk(UpdateStatus(users, cur.user._id, FAILED, Null, errMsg, now))
        /\ pc' = "sleep"
        /\ UNCHANGED rpt
     \/ /\ StoreWriteFails
        /\ RaiseToProcessOperation(DbError)
  /\ UNCHANGED <<now, otherVars, left, nbatches, cur, res, errMsg,
                 stopCause, calls, execs, opStart>>

(***************************************************************************)
(* process_get_mind_report_operation.  It never touches the store.         *)
(***************************************************************************)
FileLinkX == <<"https://files/x">>

\* What import_mind_report and the checks of the exported file may give.
ImportOutcomes ==
  {"ok", "runtime_error", "exception", "no_file", "empty_file", "size_error",
   "vanished"}

ImportFailureMsg(outcome) ==
  CASE outcome = "runtime_error" -> <<"MIND_REPORT_IMPORT_FAILED: ">> \o ErrorX
    [] outcome = "exception" -> <<"MIND_REPORT_IMPORT_UNEXPECTED: ">> \o ErrorX
    [] outcome = "no_file" -> <<"MIND_REPORT_EXPORT_FAILED: ">>
    [] outcome = "empty_file" -> <<"MIND_REPORT_FILE_EMPTY: ">>
    [] outcome = "size_error" -> <<"MIND_REPORT_FILE_CHECK_ERROR: ">> \o ErrorX
    [] outcome = "vanished" -> <<"MIND_REPORT_UNEXPECTED_ERROR: ">> \o ErrorX

UploadOutcomes == {"ok", "none", "raise"}

UploadFailureMsg(outcome) ==
  CASE outcome = "none" -> <<"MIND_REPORT_UPLOAD_FAILED: ">>
    [] outcome = "raise" -> <<"MIND_REPORT_UPLOAD_ERROR: ">> \o ErrorX

DbSaveErrorMsg == <<"MIND_REPORT_DB_SAVE_ERROR: ">> \o Str(MutationError)
MindReportInterruptedMsg == <<"MIND_REPORT_INTERRUPTED: Process interrupted by user">>

\* A variant with the idempotency gate of create_user.
GmStartGated ==
  /\ pc = "gm_start"
  /\ IF ~Has(cur, "user.clientCode")
     THEN RaiseToProcessOperation(KeyError("clientCode"))
     ELSE /\ pc' = IF IsUserProcessed(users, cur.user._id) THEN "sleep" ELSE "gm_rep1"
          /\ UNCHANGED rpt
  /\ UNCHANGED <<storeVars, otherVars, left, nbatches, cur, res, errMsg,
                 faults, stopCause, calls, execs, opStart, faulted>>

\* Lines 192-195: the fields are read.
GmStart ==
  /\ pc = "gm_start"
  /\ IF ~Has(cur, "user.clientCode")
     THEN RaiseToProcessOperation(KeyError("clientCode"))
     ELSE pc' = "gm_rep1" /\ UNCHANGED rpt
  /\ UNCHANGED <<storeVars, otherVars, left, nbatches, cur, res, errMsg,
                 faults, stopCause, calls, execs, opStart, faulted>>

\* Lines 198-208: the two 'processing' mutations, best effort.
GmRep1 ==
  /\ pc = "gm_rep1"
  /\ \E ok \in BOOLEAN :
       /\ Remote("operations:updateOperationStatus", cur._id, "processing", <<>>, ok)
       /\ pc' = IF ok THEN "gm_rep2" ELSE "gm_import"
  /\ UNCHANGED <<storeVars, otherVars, left, nbatches, cur, res, errMsg, rpt,
                 faults, stopCause, execs, opStart, faulted>>

GmRep2 ==
  /\ pc = "gm_rep2"
  /\ \E ok \in BOOLEAN :
       Remote("user:updateMindReportStatus", cur.user._id, "processing", <<>>, ok)
  /\ pc' = "gm_import"
  /\ UNCHANGED <<storeVars, otherVars, left, nbatches, cur, res, errMsg, rpt,
                 faults, stopCause, execs, opStart, faulted>>

\* Lines 219-261: import_mind_report and the checks of the file.
GmImport ==
  /\ pc = "gm_import"
  /\ execs' = execs + 1
  /\ \E o \in ImportOutcomes :
       IF o = "ok"
       THEN pc' = "gm_upload" /\ UNCHANGED <<rpt, errMsg>>
       ELSE /\ errMsg' = ImportFailureMsg(o)
            /\ StartReport(ImportFailureMsg(o), "sleep",
                           IF o = "vanished" THEN "gm_handler" ELSE "gm_try")
  /\ UNCHANGED <<storeVars, otherVars, left, nbatches, cur, res, faults,
                 stopCause, calls, opStart, faulted>>

\* Lines 265-282: upload_file_to_convex.
GmUpload ==
  /\ pc = "gm_upload"
  /\ \E o \in UploadOutcomes :
       IF o = "ok"
       THEN /\ res' = [kind |-> "file", value |-> FileLinkX]
            /\ pc' = "gm_save1"
            /\ UNCHANGED <<rpt, errMsg>>
       ELSE /\ errMsg' = UploadFailureMsg(o)
            /\ StartReport(UploadFailureMsg(o), "sleep", "gm_try")
            /\ UNCHANGED res
  /\ UNCHANGED <<storeVars, otherVars, left, nbatches, cur, faults,
                 stopCause, calls, execs, opStart, faulted>>

\* Lines 288-304: the payload and completion mutations; a failure of either
\* is reported as a failure of the operation.
GmSave1 ==
  /\ pc = "gm_save1"
  /\ \E ok \in BOOLEAN :
       /\ Remote("user:updateMindReportLink", cur.user._id, "", res.value, ok)
       /\ IF ok
          THEN pc' = "gm_save2" /\ UNCHANGED <<rpt, errMsg>>
          ELSE errMsg' = DbSaveErrorMsg /\ StartReport(DbSaveErrorMsg, "sleep", "gm_try")
  /\ UNCHANGED <<storeVars, otherVars, left, nbatches, cur, res, faults,
                 stopCause, execs, opStart, faulted>>

GmSave2 ==
  /\ pc = "gm_save2"
  /\ \E ok \in BOOLEAN :
       /\ Remote("operations:completeOperation", cur._id, "", <<>>, ok)
       /\ IF ok
          THEN pc' = "sleep" /\ UNCHANGED <<rpt, errMsg>>
          ELSE errMsg' = DbSaveErrorMsg /\ StartReport(DbSaveErrorMsg, "sleep", "gm_try")
  /\ UNCHANGED <<storeVars, otherVars, left, nbatches, cur, res, faults,
                 stopCause, execs, opStart, faulted>>

(***************************************************************************)
(* Startup: the module's load (lines 20-26) and main() up to the call of   *)
(* sync_loop (lines 462-475).  res holds the value just read or returned;  *)
(* a process that ended by sys.exit is at "exited".                        *)
(***************************************************************************)
ConvexUrlX == <<"https://convex">>

\* What os.getenv("CONVEX_URL") may give: None, the empty text, or a URL.
ConvexUrls == {Null, <<>>, ConvexUrlX}

MainSites == {"load", "config", "main", "verify", "check"}

\* The process's exit code once it has ended: sys.exit(1) at lines 26 and
\* 470; 0 when main() returns after sync_loop returned.
ExitCode == IF pc = "exited" THEN 1 ELSE 0

\* Lines 20-22: load_dotenv and os.getenv.
MainLoad ==
  /\ pc = "load"
  /\ \E url \in ConvexUrls : res' = [kind |-> "env", value |-> url]
  /\ pc' = "config"
  /\ UNCHANGED <<storeVars, otherVars, left, nbatches, cur, errMsg, rpt, faults,
                 stopCause, calls, execs, opStart, faulted>>

\* A variant that goes on without the configuration.
MainConfigIgnored ==
  /\ pc = "config"
  /\ pc' = "main"
  /\ UNCHANGED <<storeVars, otherVars, left, nbatches, cur, res, errMsg, rpt,
                 faults, stopCause, calls, execs, opStart, faulted>>

\* Lines 23-26: if not CONVEX_URL: sys.exit(1).
MainConfig ==
  /\ pc = "config"
  /\ IF Truthy(res.value)
     THEN pc' = "main" /\ UNCHANGED stopCause
     ELSE pc' = "exited" /\ stopCause' = "setup"
  /\ UNCHANGED <<storeVars, otherVars, left, nbatches, cur, res, errMsg, rpt,
                 faults, calls, execs, opStart, faulted>>

\* Lines 462-466: ConvexClient(CONVEX_URL) and LocalDB(), whose _init_db
\* creates the table only if it is not there and touches no record.
MainInit ==
  /\ pc = "main"
  /\ pc' = "verify"
  /\ UNCHANGED <<storeVars, otherVars, left, nbatches, cur, res, errMsg, rpt,
                 faults, stopCause, calls, execs, opStart, faulted>>

\* verify_setup, lines 440-451: the query returns (True) or raises (False).
MainVerify ==
  /\ pc = "verify"
  /\ \E ok \in BOOLEAN : res' = [kind |-> "setup", value |-> ok]
  /\ pc' = "check"
  /\ UNCHANGED <<storeVars, otherVars, left, nbatches, cur, errMsg, rpt, faults,
                 stopCause, calls, execs, opStart, faulted>>

\* Lines 469-475: sys.exit(1) when verify_setup returned False, else
\* sync_loop, which subscribes.
MainCheck ==
  /\ pc = "check"
  /\ IF res.value
     THEN pc' = "wait" /\ res' = NoResult /\ UNCHANGED stopCause
     ELSE pc' = "exited" /\ stopCause' = "setup" /\ UNCHANGED res
  /\ UNCHANGED <<storeVars, otherVars, left, nbatches, cur, errMsg, rpt, faults,
                 calls, execs, opStart, faulted>>

(***************************************************************************)
(* KeyboardInterrupt.  It can arrive at any point; which handler sees it   *)
(* depends on where the loop is.  Handlers of the form `except Exception`  *)
(* do not catch it.                                                        *)
(***************************************************************************)
\* Inside the try of lines 131-156 (the handler of line 149 included).
InCuTry ==
  \/ pc \in {"cu_exec", "cu_link1", "cu_link2", "cu_done1", "cu_done2", "cu_fail_try",
            "cu_end"}
  \/ pc = "rpt" /\ rpt.ctx = "cu_try"

\* Inside the try of lines 216-306.
InGmTry ==
  \/ pc \in {"gm_import", "gm_upload", "gm_save1", "gm_save2"}
  \/ pc = "rpt" /\ rpt.ctx = "gm_try"

\* The mutations of an interrupt handler: the second is made only when the
\* first succeeded.
InterruptMutations(first, second, ok1, ok2) ==
  IF ok1 THEN <<first, second>> ELSE <<first>>

\* The loop has ended: the history of the operation in flight is dropped;
\* what the handler did upstream is kept.
Stopped(cause, handlerCalls) ==
  /\ pc' = "stopped"
  /\ stopCause' = cause
  /\ calls' = handlerCalls
  /\ res' = NoResult
  /\ errMsg' = <<>>
  /\ rpt' = NoReport
  /\ execs' = 0
  /\ opStart' = <<>>

Interrupt ==
  /\ pc \notin {"off", "stopped", "exited"} \cup MainSites
  /\ stopCause = "none"
  /\ \/ \* lines 158-173: reset upstream (best effort) and locally, re-raise
        /\ InCuTry
        /\ \E ok1, ok2 \in BOOLEAN :
             LET made == InterruptMutations(
                   Mutation("operations:updateOperationStatus", cur._id, "pending",
                            InterruptedText, ok1),
                   Mutation("user:updateSyncStatus", cur.user._id, "pending",
                            InterruptedText, ok2), ok1, ok2)
             IN \/ /\ StoreWriteOk(UpdateStatus(users, cur.user._id, PENDING, Null,
                                                InterruptedText, now))
                   /\ Stopped("interrupt", made)
                \/ \* the failed write raises in place of the interrupt
                   /\ StoreWriteFails
                   /\ stopCause' = "swallowed"
                   /\ calls' = calls \o made
                   /\ RaiseToProcessOperation(DbError)
                   /\ UNCHANGED <<res, errMsg, execs, opStart>>
     \/ \* lines 308-324: reset upstream (best effort), re-raise
        /\ InGmTry
        /\ \E ok1, ok2 \in BOOLEAN :
             Stopped("interrupt", InterruptMutations(
               Mutation("operations:updateOperationStatus", cur._id, "pending",
                        MindReportInterruptedMsg, ok1),
               Mutation("user:updateMindReportStatus", cur.user._id, "pending",
                        MindReportInterruptedMsg, ok2), ok1, ok2))
        /\ UNCHANGED <<users, faults, faulted>>
     \/ \* anywhere else the interrupt reaches sync_loop's handler directly
        /\ ~InCuTry
        /\ ~InGmTry
        /\ Stopped("interrupt", <<>>)
        /\ UNCHANGED <<users, faults, faulted>>
  /\ UNCHANGED <<now, otherVars, left, nbatches, cur>>

\* main() is run again after the loop has ended: the store is the file the
\* previous run left.
Restart ==
  /\ pc = "stopped"
  /\ nbatches < MaxBatches
  /\ pc' = "wait"
  /\ left' = 0
  /\ cur' = NoOperation
  /\ calls' = <<>>
  /\ faulted' = FALSE
  /\ stopCause' = "none"
  /\ UNCHANGED <<storeVars, otherVars, nbatches, res, errMsg, rpt, faults,
                 execs, opStart>>

Next ==
  \/ ReceiveBatch
  \/ EndOfBatch
  \/ NextOperation
  \/ SkipOperation
  \/ Dispatch
  \/ Sleep
  \/ ReportAttempt
  \/ CuStart
  \/ CuAck
  \/ CuAdd
  \/ CuMark
  \/ CuRep1
  \/ CuRep2
  \/ CuMysql
  \/ CuMy1
  \/ CuMy2
  \/ CuMyDb
  \/ CuExec
  \/ CuLink1
  \/ CuLink2
  \/ CuDone1
  \/ CuDone2
  \/ CuFailTry
  \/ CuEnd
  \/ CuFail
  \/ GmStart
  \/ GmRep1
  \/ GmRep2
  \/ GmImport
  \/ GmUpload
  \/ GmSave1
  \/ GmSave2
  \/ Interrupt
  \/ Restart

Spec == Init /\ [][Next]_vars

(***************************************************************************)
(* SpecLive: the loop when no interrupt arrives and the process is not     *)
(* started again.  Every call the loop makes returns or raises, so a step  *)
(* that can be taken is taken: weak fairness of the loop's steps.          *)
(***************************************************************************)
NextLive ==
  \/ ReceiveBatch
  \/ EndOfBatch
  \/ NextOperation
  \/ SkipOperation
  \/ Dispatch
  \/ Sleep
  \/ ReportAttempt
  \/ CuStart
  \/ CuAck
  \/ CuAdd
  \/ CuMark
  \/ CuRep1
  \/ CuRep2
  \/ CuMysql
  \/ CuMy1
  \/ CuMy2
  \/ CuMyDb
  \/ CuExec
  \/ CuLink1
  \/ CuLink2
  \/ CuDone1
  \/ CuDone2
  \/ CuFailTry
  \/ CuEnd
  \/ CuFail
  \/ GmStart
  \/ GmRep1
  \/ GmRep2
  \/ GmImport
  \/ GmUpload
  \/ GmSave1
  \/ GmSave2

SpecLive == Init /\ [][NextLive]_vars /\ WF_vars(NextLive)

(***************************************************************************)
(* SpecMain: the process from its start.  The loop is entered only when    *)
(* the setup succeeded.  An interrupt before sync_loop is not modelled: it *)
(* is caught by nothing and ends the process with a traceback.             *)
(***************************************************************************)
InitMain ==
  /\ users = EarlierRun
  /\ now = 0
  /\ last = NoCall
  /\ wpc = IncrIdle
  /\ dbLock = NoWorker
  /\ txn = [w \in Workers |-> <<>>]
  /\ wret = [w \in Workers |-> 0]
  /\ incrBase = 0
  /\ pc = "load"
  /\ left = 0
  /\ nbatches = 0
  /\ cur = NoOperation
  /\ res = NoResult
  /\ errMsg = <<>>
  /\ rpt = NoReport
  /\ faults = 0
  /\ stopCause = "none"
  /\ calls = <<>>
  /\ execs = 0
  /\ opStart = <<>>
  /\ faulted = FALSE

NextMain ==
  \/ MainLoad
  \/ MainConfig
  \/ MainInit
  \/ MainVerify
  \/ MainCheck
  \/ Next

SpecMain == InitMain /\ [][NextMain]_vars

(***************************************************************************)
(* SpecUser: the user sync engine (sync_engine.py).  sync_loop copies the  *)
(* pending users into the store, then receives batches of user documents   *)
(* and hands every one that is not Completed locally to process_user.  It  *)
(* reports nothing upstream but the recording link, and does not sleep.    *)
(* cur is the user document being processed; calls, execs, opStart and     *)
(* faulted are its history, which ends when process_user has returned      *)
(* (pc = "pu_done").  A store write may fail as in Spec.                   *)
(***************************************************************************)
NoLinkMsg == <<"Failed to get recording link">>

\* The lists client.query("user:listPendingUsers") may return.
PendingLists == {<<>>, <<"s1">>, <<"s2">>, <<"s1", "s2">>, <<"s2", "s1">>}

\* Lines 109-116: every listed user without a record is added.
RECURSIVE AddUsers(_, _, _)
AddUsers(tbl, list, t) ==
  IF list = <<>> THEN tbl
  ELSE LET u == UserDoc(Head(list))
       IN AddUsers(AddUser(tbl, u._id, u.clientCode, u.firstName, u.lastName, t),
                   Tail(list), t)

InitUser ==
  /\ users = EarlierRun
  /\ now = 0
  /\ last = NoCall
  /\ wpc = IncrIdle
  /\ dbLock = NoWorker
  /\ txn = [w \in Workers |-> <<>>]
  /\ wret = [w \in Workers |-> 0]
  /\ incrBase = 0
  /\ pc = "su_sync"
  /\ left = 0
  /\ nbatches = 0
  /\ cur = NoOperation
  /\ res = NoResult
  /\ errMsg = <<>>
  /\ rpt = NoReport
  /\ faults = 0
  /\ stopCause = "none"
  /\ calls = <<>>
  /\ execs = 0
  /\ opStart = <<>>
  /\ faulted = FALSE

\* An exception leaves process_user: the handler of line 140 ends the loop.
SuRaise ==
  /\ pc' = "su_stopped"
  /\ stopCause' = "error"

\* Lines 107-119: the query fails, or its users are added; a failed write
\* ends the copying after the users added before it.  Either is logged.
SuSyncExisting ==
  /\ pc = "su_sync"
  /\ pc' = "su_wait"
  /\ \/ UNCHANGED <<users, faults>>
     \/ \E list \in PendingLists :
          \/ /\ users' = AddUsers(users, list, now)
             /\ UNCHANGED faults
          \/ \E k \in 1..Len(list) :
               /\ ~HasRow(users, list[k])
               /\ faults < MaxFaults
               /\ faults' = faults + 1
               /\ users' = AddUsers(users, SubSeq(list, 1, k - 1), now)
  /\ UNCHANGED <<now, otherVars, left, nbatches, cur, res, errMsg, rpt,
                 stopCause, calls, execs, opStart, faulted>>

\* Lines 123-125: the subscription pushes a batch; an empty one is passed
\* over.
SuReceive ==
  /\ pc = "su_wait"
  /\ nbatches < MaxBatches
  /\ nbatches' = nbatches + 1
  /\ \E n \in 0..MaxBatchLen :
       /\ left' = n
       /\ pc' = IF n = 0 THEN "su_wait" ELSE "su_loop"
  /\ UNCHANGED <<storeVars, otherVars, cur, res, errMsg, rpt, faults, stopCause,
                 calls, execs, opStart, faulted>>

SuEndOfBatch ==
  /\ pc = "su_loop"
  /\ left = 0
  /\ pc' = "su_wait"
  /\ UNCHANGED <<storeVars, otherVars, left, nbatches, cur, res, errMsg, rpt,
                 faults, stopCause, calls, execs, opStart, faulted>>

\* Lines 128-136: a user Completed locally is passed over, any other is
\* handed to process_user.
SuNextUser ==
  /\ pc = "su_loop"
  /\ left > 0
  /\ left' = left - 1
  /\ \E s \in Subjects :
       IF IsUserProcessed(users, s)
       THEN /\ pc' = "su_loop"
            /\ UNCHANGED <<cur, opStart>>
       ELSE /\ pc' = "pu_gate"
            /\ cur' = UserDoc(s)
            /\ opStart' = users
  /\ UNCHANGED <<storeVars, otherVars, nbatches, res, errMsg, rpt, faults,
                 stopCause, calls, execs, faulted>>

\* Lines 38-40.
PuGate ==
  /\ pc = "pu_gate"
  /\ pc' = IF IsUserProcessed(users, cur._id) THEN "pu_done" ELSE "pu_get"
  /\ UNCHANGED <<storeVars, otherVars, left, nbatches, cur, res, errMsg, rpt,
                 faults, stopCause, calls, execs, opStart, faulted>>

\* Lines 43-44.
PuGet ==
  /\ pc = "pu_get"
  /\ pc' = IF HasRow(users, cur._id) THEN "pu_mark" ELSE "pu_add"
  /\ UNCHANGED <<storeVars, otherVars, left, nbatches, cur, res, errMsg, rpt,
                 faults, stopCause, calls, execs, opStart, faulted>>

\* Line 45, outside the try of line 53.
PuAdd ==
  /\ pc = "pu_add"
  /\ \/ /\ StoreWriteOk(AddUser(users, cur._id, cur.clientCode, cur.firstName,
                                cur.lastName, now))
        /\ pc' = "pu_mark"
        /\ UNCHANGED stopCause
     \/ /\ StoreWriteFails
        /\ SuRaise
  /\ UNCHANGED <<now, otherVars, left, nbatches, cur, res, errMsg, rpt,
                 calls, execs, opStart>>

\* Line 48, outside the try of line 53.
PuMark ==
  /\ pc = "pu_mark"
  /\ \/ /\ StoreWriteOk(UpdateStatus(users, cur._id, PROCESSING, Null, Null, now))
        /\ pc' = "pu_exec"
        /\ UNCHANGED stopCause
     \/ /\ StoreWriteFails
        /\ SuRaise
  /\ UNCHANGED <<now, otherVars, left, nbatches, cur, res, errMsg, rpt,
                 calls, execs, opStart>>

\* Lines 55-61, 75 and 82: the executor; `if recording_link:` is the truth
\* of the value as returned.
PuExec ==
  /\ pc = "pu_exec"
  /\ execs' = execs + 1
  /\ \E o \in ExecutorOutcomes :
       IF o.kind = "raise"
       THEN /\ res' = [kind |-> "raise", value |-> Str(o.exc)]
            /\ errMsg' = Str(o.exc)
            /\ pc' = "pu_incr_h"
       ELSE IF Truthy(o.value)
       THEN /\ res' = [kind |-> "link", value |-> o.value]
            /\ pc' = "pu_mutation"
            /\ UNCHANGED errMsg
       ELSE /\ res' = [kind |-> "empty", value |-> Null]
            /\ errMsg' = NoLinkMsg
            /\ pc' = "pu_incr"
  /\ UNCHANGED <<storeVars, otherVars, left, nbatches, cur, rpt, faults,
                 stopCause, calls, opStart, faulted>>

\* Lines 65-68: the mutation is made inside the try of line 53 with no
\* handler of its own; its exception goes to the handler of line 81.
PuMutation ==
  /\ pc = "pu_mutation"
  /\ \E ok \in BOOLEAN :
       /\ Remote("user:updateRecordingLink", cur._id, "", res.value, ok)
       /\ IF ok
          THEN pc' = "pu_completed" /\ UNCHANGED errMsg
          ELSE pc' = "pu_incr_h" /\ errMsg' = Str(MutationError)
  /\ UNCHANGED <<storeVars, otherVars, left, nbatches, cur, res, rpt,
                 faults, stopCause, execs, opStart, faulted>>

\* Line 71.
PuCompleted ==
  /\ pc = "pu_completed"
  /\ \/ /\ StoreWriteOk(UpdateStatus(users, cur._id, COMPLETED, res.value, Null, now))
        /\ pc' = "pu_done"
        /\ UNCHANGED errMsg
     \/ /\ StoreWriteFails
        /\ pc' = "pu_incr_h"
        /\ errMsg' = Str(DbError)
  /\ UNCHANGED <<now, otherVars, left, nbatches, cur, res, rpt, stopCause,
                 calls, execs, opStart>>

\* A variant that counts the failure twice.
PuIncrTwice ==
  /\ pc = "pu_incr"
  /\ StoreWriteOk(IncrementRetry(IncrementRetry(users, cur._id, now), cur._id, now))
  /\ pc' = "pu_failed"
  /\ UNCHANGED <<now, otherVars, left, nbatches, cur, res, errMsg, rpt, stopCause,
                 calls, execs, opStart>>

\* Line 77, inside the try.
PuIncr ==
  /\ pc = "pu_incr"
  /\ \/ /\ StoreWriteOk(IncrementRetry(users, cur._id, now))
        /\ pc' = "pu_failed"
        /\ UNCHANGED errMsg
     \/ /\ StoreWriteFails
        /\ pc' = "pu_incr_h"
        /\ errMsg' = Str(DbError)
  /\ UNCHANGED <<now, otherVars, left, nbatches, cur, res, rpt, stopCause,
                 calls, execs, opStart>>

\* Line 78, inside the try.
PuFailed ==
  /\ pc = "pu_failed"
  /\ \/ /\ StoreWriteOk(UpdateStatus(users, cur._id, FAILED, Null, errMsg, now))
        /\ pc' = "pu_done"
        /\ UNCHANGED errMsg
     \/ /\ StoreWriteFails
        /\ pc' = "pu_incr_h"
        /\ errMsg' = Str(DbError)
  /\ UNCHANGED <<now, otherVars, left, nbatches, cur, res, rpt, stopCause,
                 calls, execs, opStart>>

\* Line 84, in the handler of line 81.
PuIncrH ==
  /\ pc = "pu_incr_h"
  /\ \/ /\ StoreWriteOk(IncrementRetry(users, cur._id, now))
        /\ pc' = "pu_failed_h"
        /\ UNCHANGED stopCause
     \/ /\ StoreWriteFails
        /\ SuRaise
  /\ UNCHANGED <<now, otherVars, left, nbatches, cur, res, errMsg, rpt,
                 calls, execs, opStart>>

\* Line 85, in the handler of line 81.
PuFailedH ==
  /\ pc = "pu_failed_h"
  /\ \/ /\ StoreWriteOk(UpdateStatus(users, cur._id, FAILED, Null, errMsg, now))
        /\ pc' = "pu_done"
        /\ UNCHANGED stopCause
     \/ /\ StoreWriteFails
        /\ SuRaise
  /\ UNCHANGED <<now, otherVars, left, nbatches, cur, res, errMsg, rpt,
                 calls, execs, opStart>>

\* process_user has returned; the user's history ends here.
PuReturn ==
  /\ pc = "pu_done"
  /\ pc' = "su_loop"
  /\ cur' = NoOperation
  /\ res' = NoResult
  /\ errMsg' = <<>>
  /\ calls' = <<>>
  /\ execs' = 0
  /\ opStart' = <<>>
  /\ faulted' = FALSE
  /\ UNCHANGED <<storeVars, otherVars, left, nbatches, rpt, faults, stopCause>>

\* KeyboardInterrupt: no handler of process_user catches it; the handler of
\* line 138 ends the loop and the store stays as it is.
SuInterrupt ==
  /\ pc \notin {"su_sync", "su_stopped"}
  /\ pc' = "su_stopped"
  /\ stopCause' = "interrupt"
  /\ UNCHANGED <<storeVars, otherVars, left, nbatches, cur, res, errMsg, rpt,
                 faults, calls, execs, opStart, faulted>>

NextUser ==
  \/ SuSyncExisting
  \/ SuReceive
  \/ SuEndOfBatch
  \/ SuNextUser
  \/ PuGate
  \/ PuGet
  \/ PuAdd
  \/ PuMark
  \/ PuExec
  \/ PuMutation
  \/ PuCompleted
  \/ PuIncr
  \/ PuFailed
  \/ PuIncrH
  \/ PuFailedH
  \/ PuReturn
  \/ SuInterrupt

SpecUser == InitUser /\ [][NextUser]_vars

(***************************************************************************)
(* Claims about the Dispatcher.  An operation's processing has finished    *)
(* when the loop stands before its sleep (pc = "sleep"); calls, execs and  *)
(* opStart then hold what was done for it.  Where a claim speaks of the    *)
(* store's writes as succeeding, its statement is about the operations in  *)
(* whose processing no store write failed (~faulted).                      *)
(***************************************************************************)

\* The operation being processed is of this type and carries its fields.
Handling(type) ==
  /\ cur # NoOperation
  /\ WellFormed(cur)
  /\ cur.operationType = type

\* The mutations of this name made for the operation being processed.
CallsNamed(name) == {i \in DOMAIN calls : calls[i].name = name}

\* The 'failed' reports made for the operation being processed.
FailedReports ==
  {i \in CallsNamed("operations:updateOperationStatus") : calls[i].status = "failed"}

\* The Status Reporter's protocol as seen upstream: at least one and at most
\* ReportMaxRetries attempts, all for this operation, no attempt after an
\* accepted one.
OneReport ==
  /\ FailedReports # {}
  /\ Cardinality(FailedReports) <= ReportMaxRetries
  /\ \A i \in FailedReports : calls[i].id = cur._id
  /\ \A i, j \in FailedReports : calls[i].ok /\ i # j => j < i

\* C1: whenever a create_user operation is delivered for a subject whose
\* local record is Completed, the executor is not invoked, the store is left
\* as it was, and the one mutation made is operations:completeOperation for
\* that operation; this holds at every delivery.
C1_CompletedSubjectAcknowledged ==
  (/\ Handling("create_user")
   /\ HasRow(opStart, cur.user._id)
   /\ GetUser(opStart, cur.user._id).status = COMPLETED)
  => /\ execs = 0
     /\ users = opStart
     /\ pc \in {"dispatch", "cu_start", "cu_ack", "sleep"}
     /\ pc # "sleep" => calls = <<>>
     /\ pc = "sleep" =>
          /\ Len(calls) = 1
          /\ calls[1].name = "operations:completeOperation"
          /\ calls[1].id = cur._id

\* The subject s1 was completed by this loop; the operation is delivered
\* again in a later batch and acknowledged.
C1_Witness ==
  /\ pc = "sleep"
  /\ nbatches = MaxBatches
  /\ Handling("create_user")
  /\ cur.user._id = "s1"
  /\ HasRow(opStart, "s1")
  /\ GetUser(opStart, "s1").status = COMPLETED
  /\ GetUser(opStart, "s1").recording_link = LinkX
  /\ execs = 0
  /\ users = opStart
  /\ CallsNamed("operations:completeOperation") = {1}

\* C2: after the create_user executor returned a non-empty link, the
\* subject's record ends Completed with recording_link equal to the returned
\* link, whether or not the user:updateRecordingLink or
\* operations:completeOperation mutation failed.
C2_LinkKeptWhenMutationsFail ==
  (pc = "sleep" /\ res.kind = "link" /\ ~faulted)
  => /\ HasRow(users, cur.user._id)
     /\ GetUser(users, cur.user._id).status = COMPLETED
     /\ GetUser(users, cur.user._id).recording_link = res.value

\* The payload mutation succeeded, the completion mutation failed, and the
\* record is Completed with the link as the executor returned it.
C2_Witness ==
  /\ pc = "sleep"
  /\ res.kind = "link"
  /\ res.value = <<" ">> \o LinkX
  /\ ~faulted
  /\ \E i \in CallsNamed("user:updateRecordingLink") : calls[i].ok
  /\ \E i \in CallsNamed("operations:completeOperation") : ~calls[i].ok
  /\ GetUser(users, cur.user._id).status = COMPLETED
  /\ GetUser(users, cur.user._id).recording_link = <<" ">> \o LinkX

\* C3: every time the dispatcher moves a subject to Failed after an executor
\* failure, the subject's retry_count is one higher than it was when the
\* operation's processing began (0 for a subject first seen).
C3_RetryCountIncrementedOnFailure ==
  (/\ pc = "sleep"
   /\ Handling("create_user")
   /\ res.kind = "raise"
   /\ HasRow(users, cur.user._id)
   /\ GetUser(users, cur.user._id).status = FAILED)
  => GetUser(users, cur.user._id).retry_count =
       (IF HasRow(opStart, cur.user._id)
        THEN GetUser(opStart, cur.user._id).retry_count ELSE 0) + 1

\* C6: a create_user operation for a Pending subject (its record Pending, or
\* created Pending by this operation), the executor returns a link p and
\* every remote mutation succeeds: afterwards the record is Completed with
\* recording_link p and processed_at set, and exactly one
\* user:updateRecordingLink call (for the subject, carrying p) and exactly
\* one operations:completeOperation call (for the operation) were made.
C6_ScenarioA ==
  (/\ pc = "sleep"
   /\ Handling("create_user")
   /\ res.kind = "link"
   /\ ~faulted
   /\ HasRow(opStart, cur.user._id) => GetUser(opStart, cur.user._id).status = PENDING
   /\ \A i \in DOMAIN calls : calls[i].ok)
  => /\ HasRow(users, cur.user._id)
     /\ GetUser(users, cur.user._id).status = COMPLETED
     /\ GetUser(users, cur.user._id).recording_link = res.value
     /\ GetUser(users, cur.user._id).processed_at # NullTime
     /\ Cardinality(CallsNamed("user:updateRecordingLink")) = 1
     /\ \A i \in CallsNamed("user:updateRecordingLink") :
          calls[i].id = cur.user._id /\ calls[i].payload = res.value
     /\ Cardinality(CallsNamed("operations:completeOperation")) = 1
     /\ \A i \in CallsNamed("operations:completeOperation") : calls[i].id = cur._id

\* The subject's record was Pending when the operation arrived (an earlier
\* run was interrupted), the executor returned "https://x" and every
\* mutation succeeded.
C6_Witness ==
  /\ pc = "sleep"
  /\ Handling("create_user")
  /\ res = [kind |-> "link", value |-> LinkX]
  /\ ~faulted
  /\ HasRow(opStart, cur.user._id)
  /\ GetUser(opStart, cur.user._id).status = PENDING
  /\ \A i \in DOMAIN calls : calls[i].ok
  /\ CallsNamed("user:updateRecordingLink") # {}
  /\ GetUser(users, cur.user._id).status = COMPLETED

\* C7: a create_user operation whose executor raised an error with message
\* X: the subject's status becomes Failed, every 'failed' report made for
\* the operation carries X in its errorReason, and the reporter stops at the
\* first report the upstream accepts, so an accepted report is the only
\* accepted one and, when the upstream accepts the first attempt, the only
\* one made.
C7_ScenarioB ==
  (pc = "sleep" /\ Handling("create_user") /\ res.kind = "raise" /\ ~faulted)
  => /\ HasRow(users, cur.user._id)
     /\ GetUser(users, cur.user._id).status = FAILED
     /\ GetUser(users, cur.user._id).error_message = res.value
     /\ OneReport
     /\ \A i \in FailedReports : Contains(calls[i].payload, "X")

\* The executor raised "X", the upstream accepted the first report, and the
\* record is Failed with that message.
C7_Witness ==
  /\ pc = "sleep"
  /\ Handling("create_user")
  /\ res.kind = "raise"
  /\ ~faulted
  /\ Cardinality(FailedReports) = 1
  /\ \A i \in FailedReports : calls[i].ok /\ calls[i].payload = ErrorX
  /\ GetUser(users, cur.user._id).status = FAILED

\* C8: an operation whose operationType is neither create_user nor
\* get_mind_report: no executor is invoked, the store is not changed, the
\* only mutations made are 'failed' reports for that operation containing
\* "Unknown operation type", and the reporter stops at the first one the
\* upstream accepts.
C8_UnknownOperationType ==
  (/\ cur # NoOperation
   /\ WellFormed(cur)
   /\ cur.operationType \notin {"create_user", "get_mind_report"}
   /\ pc # "stopped")
  => /\ execs = 0
     /\ users = opStart
     /\ FailedReports = DOMAIN calls
     /\ \A i \in FailedReports :
          /\ calls[i].id = cur._id
          /\ Contains(calls[i].payload, "Unknown operation type")
          /\ Contains(calls[i].payload, cur.operationType)
     /\ pc = "sleep" => OneReport

\* "delete_user_v2" arrived, the store holding records; one report was made
\* and accepted.
C8_Witness ==
  /\ pc = "sleep"
  /\ cur # NoOperation
  /\ cur.operationType = "delete_user_v2"
  /\ execs = 0
  /\ Len(users) = 2
  /\ users = opStart
  /\ Len(calls) = 1
  /\ calls[1].ok
  /\ calls[1].payload = <<"Unknown operation type", ": ", "delete_user_v2">>

\* C10: no failure other than an interrupt, raised while handling one
\* operation, stops the sync loop: the loop ends only on an interrupt.
C10_FailureNeverStopsLoop ==
  pc = "stopped" => stopCause = "interrupt"

\* A create_user operation is in flight after line 94 has set the subject's
\* status to Processing and before its processing has finished.
AfterMark ==
  /\ Handling("create_user")
  /\ \/ pc \in {"cu_rep1", "cu_rep2", "cu_mysql", "cu_my1", "cu_my2", "cu_mydb",
                "cu_exec", "cu_link1", "cu_link2", "cu_done1", "cu_done2",
                "cu_fail_try", "cu_end", "cu_fail"}
     \/ pc = "rpt" /\ rpt.ctx \in {"cu_try", "cu_handler"}

\* C13: whenever an interrupt arrives while a create_user operation is in
\* flight, after the subject's status was set to Processing and before the
\* operation's processing finished, the subject's local status is Pending
\* when the loop has ended.
C13_InterruptResetsToPending ==
  [][(AfterMark /\ pc' = "stopped" /\ stopCause' = "interrupt")
       => (/\ HasRow(users', cur.user._id)
           /\ GetUser(users', cur.user._id).status = PENDING)]_vars

(***************************************************************************)
(* Claims about the Status Reporter.                                       *)
(***************************************************************************)

\* C11: report_error_to_server with max_retries = N makes at most N
\* attempts, makes none after an attempt that succeeded and then returns
\* True, returns False exactly when N attempts were made and all failed,
\* and has waited once after every failed attempt but the N-th: never after
\* the last attempt it makes.
C11_BoundedReporting ==
  LET n == Len(calls)
      returned == rpt.ack # "none"
      allFailed == \A i \in DOMAIN calls : ~calls[i].ok
  IN rpt # NoReport =>
     /\ rpt.attempt = n
     /\ n <= rpt.max
     /\ \A i \in DOMAIN calls :
          /\ calls[i].name = rpt.name /\ calls[i].id = rpt.id
          /\ calls[i].status = "failed" /\ calls[i].payload = rpt.msg
          /\ calls[i].ok => i = n
     /\ returned <=> pc # "rpt"
     /\ rpt.ack = "true" <=> (n > 0 /\ calls[n].ok)
     /\ rpt.ack = "false" <=> (returned /\ allFailed /\ (n = rpt.max \/ rpt.max <= 0))
     /\ returned => rpt.waits = (IF n > 0 THEN n - 1 ELSE 0)
     /\ ~returned => rpt.waits = n

\* The default max_retries = 3: three failed attempts, two waits, False.
C11_Witness ==
  /\ rpt.max = ReportMaxRetries
  /\ rpt.ack = "false"
  /\ Len(calls) = ReportMaxRetries
  /\ rpt.waits = ReportMaxRetries - 1
  /\ \A i \in DOMAIN calls : ~calls[i].ok

\* C12: the Status Reporter never raises a reporting failure into the
\* dispatcher: once report_error_to_server has returned False, control is
\* at its caller's next statement or, that done, before the sleep; the
\* create_user operation it was called for ends with the local status
\* Failed; and the loop then goes on with what is left of the batch.
C12_ReportingFailureContained ==
  /\ [](rpt.ack = "false" =>
          /\ pc \in {"cu_fail", "cu_fail_try", "cu_end", "sleep"}
          /\ (/\ pc = "sleep"
              /\ Handling("create_user")
              /\ rpt.ctx \in {"cu_try", "cu_handler"}
              /\ ~faulted)
             => /\ HasRow(users, cur.user._id)
                /\ GetUser(users, cur.user._id).status = FAILED
                /\ GetUser(users, cur.user._id).error_message = rpt.msg)
  /\ [][(pc = "sleep" /\ rpt.ack = "false" /\ stopCause' = stopCause)
          => (pc' = "loop" /\ left' = left /\ nbatches' = nbatches)]_vars

\* The executor raised, all three reports failed, and the operation ended
\* Failed with another operation left in the batch.
C12_Witness ==
  /\ pc = "sleep"
  /\ Handling("create_user")
  /\ res.kind = "raise"
  /\ rpt.ack = "false"
  /\ Cardinality(FailedReports) = ReportMaxRetries
  /\ \A i \in FailedReports : ~calls[i].ok
  /\ GetUser(users, cur.user._id).status = FAILED
  /\ left > 0

(***************************************************************************)
(* Claims about the store writes and the order of work in the Dispatcher.  *)
(***************************************************************************)

\* The positions at which process_create_user_operation calls update_status
\* (lines 94, 147, 151, 156, 178), the table each call asks for, and the
\* position the function is at when the call has returned.
UpdateStatusSites == {"cu_mark", "cu_done1", "cu_done2", "cu_fail_try", "cu_fail"}

UpdateStatusCall ==
  CASE pc = "cu_mark" ->
         UpdateStatus(users, cur.user._id, PROCESSING, Null, Null, now)
    [] pc \in {"cu_done1", "cu_done2"} ->
         UpdateStatus(users, cur.user._id, COMPLETED, res.value, Null, now)
    [] pc \in {"cu_fail_try", "cu_fail"} ->
         UpdateStatus(users, cur.user._id, FAILED, Null, errMsg, now)

UpdateStatusReturn ==
  IF pc = "cu_mark" THEN "cu_rep1" ELSE IF pc = "cu_fail" THEN "sleep" ELSE "cu_end"

\* C16: update_status never swallows a persistence failure.  At each of its
\* calls the function goes on past the call only when the table is the one
\* the call asked for; when the write or its commit fails the table is as
\* before and control is with a handler of the caller (the handler of line
\* 149 or 174, or process_operation's), never past the call.  The same holds
\* of the call the interrupt handler makes (line 172).
C16_UpdateStatusRaisesFailure ==
  /\ [][(pc \in UpdateStatusSites /\ stopCause' = stopCause) =>
          /\ (pc' = UpdateStatusReturn =>
                (users' = UpdateStatusCall /\ faults' = faults))
          /\ (faults' # faults =>
                /\ users' = users
                /\ faulted'
                /\ pc' # UpdateStatusReturn
                /\ pc' = IF pc = "cu_done1" THEN "cu_done2" ELSE "rpt"
                /\ pc' = "rpt" =>
                     rpt'.ctx = IF pc \in {"cu_mark", "cu_fail"}
                                THEN "po_handler" ELSE "cu_handler")]_vars
  /\ [][(InCuTry /\ stopCause = "none" /\ stopCause' # "none") =>
          \/ /\ users' = UpdateStatus(users, cur.user._id, PENDING, Null,
                                      InterruptedText, now)
             /\ faults' = faults
             /\ pc' = "stopped"
          \/ /\ users' = users
             /\ faults' = faults + 1
             /\ pc' = "rpt"
             /\ rpt'.ctx = "po_handler"]_vars

\* The write of line 94 failed: the record is still as add_user left it,
\* nothing was reported as 'processing', and process_operation's handler is
\* reporting the error.
C16_Witness ==
  /\ Handling("create_user")
  /\ faulted
  /\ pc = "rpt"
  /\ rpt.ctx = "po_handler"
  /\ rpt.msg = CriticalMsg(DbError)
  /\ calls = <<>>
  /\ execs = 0
  /\ HasRow(users, cur.user._id)
  /\ GetUser(users, cur.user._id).status = PENDING

\* The positions at which an executor (the automation of the application)
\* is invoked: create_user (line 133) and import_mind_report (line 220).
ExecutorSites == {"cu_exec", "gm_import"}

\* C18: the operations of a batch are processed one at a time in the order
\* of the batch.  An operation is taken up only at the head of the loop,
\* when nothing of the operation before it is left in progress (no
\* operation, result, report or executor invocation), and it is the next
\* position of the same batch; the position moves forward by one at a time
\* and a new batch is received only when the batch before is exhausted (or
\* the loop was started again); and one operation invokes one executor, at
\* most once, so no two executors run at the same time.
C18_SequentialInOrder ==
  /\ [][(cur' # cur /\ cur' # NoOperation) =>
          /\ pc = "loop"
          /\ pc' = "dispatch"
          /\ cur = NoOperation
          /\ res = NoResult
          /\ rpt = NoReport
          /\ calls = <<>>
          /\ execs = 0
          /\ left' = left - 1
          /\ nbatches' = nbatches]_vars
  /\ [][left' # left =>
          \/ pc = "loop" /\ left' = left - 1 /\ nbatches' = nbatches
          \/ pc = "wait" /\ left = 0 /\ nbatches' = nbatches + 1
          \/ pc = "stopped" /\ left' = 0]_vars
  /\ [][execs' # execs =>
          \/ pc \in ExecutorSites /\ execs = 0 /\ execs' = 1 /\ pc' \notin ExecutorSites
          \/ execs' = 0 /\ pc' \in {"loop", "stopped"}]_vars
  /\ [](pc \in ExecutorSites => (cur # NoOperation /\ execs = 0))

\* The second operation of the first batch is at the executor, and the
\* table as it was when this operation was taken up shows the first one
\* processed to its end (the subject failed).
C18_Witness ==
  /\ pc = "cu_exec"
  /\ nbatches = 1
  /\ left = 0
  /\ execs = 0
  /\ calls # <<>>
  /\ HasRow(opStart, "s1")
  /\ GetUser(opStart, "s1").status = FAILED

\* C19: after every operation the loop processes (success, failure, or skip
\* of a completed subject) it sleeps before the next one is taken up, in
\* the same batch or the next.  The loop head and the subscription are
\* reached from the processing of an operation only through the sleep (an
\* operation passed over for its status is not processed); the
\* operation in hand is let go only by the sleep (or by a new start of a
\* loop that had ended); the sleep is followed by the loop head with the
\* batch as it was; and an operation is taken up only at the loop head, so
\* a sleep lies between any two operations processed.
C19_SleepAfterEveryOperation ==
  /\ [](pc \in {"loop", "wait"} => (cur = NoOperation /\ calls = <<>>))
  /\ [][(pc' \in {"loop", "wait"} /\ pc \notin {"loop", "wait", "stopped", "skip"}) =>
          (pc = "sleep" /\ pc' = "loop")]_vars
  /\ [][(cur # NoOperation /\ cur' # cur) =>
          (cur' = NoOperation /\ pc \in {"sleep", "stopped"})]_vars
  /\ [][(pc = "sleep" /\ stopCause' = stopCause) =>
          (pc' = "loop" /\ left' = left /\ nbatches' = nbatches)]_vars
  /\ [][pc' = "dispatch" => (pc = "loop" /\ cur = NoOperation)]_vars

\* The loop stands before its sleep after the skip of the completed subject
\* (only the acknowledgement was made), an earlier operation having failed,
\* with operations of the batch still to come.
C19_Witness ==
  /\ pc = "sleep"
  /\ Handling("create_user")
  /\ cur.user._id = "s2"
  /\ IsUserProcessed(users, "s2")
  /\ Len(calls) = 1
  /\ calls[1].name = "operations:completeOperation"
  /\ execs = 0
  /\ HasRow(users, "s1")
  /\ GetUser(users, "s1").status = FAILED
  /\ left > 0

(***************************************************************************)
(* Claims about startup.                                                   *)
(***************************************************************************)

\* C21: when setup fails (CONVEX_URL is missing or empty, or the
\* verification query raises) the process exits with a non-zero code before
\* it subscribes: the step that finds the failure ends the process, no
\* startup step touches the store, invokes an executor or receives a batch,
\* and the process that has exited received no batch, invoked no executor,
\* made no remote mutation and left the store as it found it.
C21_SetupFailureExits ==
  /\ [][((pc = "config" /\ ~Truthy(res.value)) \/ (pc = "check" /\ ~res.value)) =>
          (pc' = "exited" /\ stopCause' = "setup" /\ ExitCode' # 0)]_vars
  /\ [][(pc \in MainSites) =>
          /\ users' = users
          /\ execs' = execs
          /\ nbatches' = nbatches
          /\ calls' = calls
          /\ pc' \in MainSites \cup {"exited", "wait"}]_vars
  /\ [](pc = "exited" =>
          /\ ExitCode # 0
          /\ stopCause = "setup"
          /\ nbatches = 0
          /\ execs = 0
          /\ calls = <<>>
          /\ cur = NoOperation
          /\ users = EarlierRun)
  /\ [][pc = "exited" => pc' = "exited"]_vars

\* The process has exited because the verification query raised.
C21_Witness ==
  /\ pc = "exited"
  /\ res = [kind |-> "setup", value |-> FALSE]
  /\ ExitCode = 1

(***************************************************************************)
(* Claims about the local status transitions of the Dispatcher.            *)
(***************************************************************************)

\* C24: the dispatcher makes only these local status transitions: a record
\* is created as Pending; a record that is not Completed goes to
\* Processing; Processing goes to Completed, to Failed, and, only on an
\* interrupt, to Pending.  The status of a Completed record never changes
\* and no record is removed.
C24_DispatcherTransitions ==
  [][\A s \in Subjects :
       /\ (~HasRow(users, s) /\ HasRow(users', s)) =>
            GetUser(users', s).status = PENDING
       /\ HasRow(users, s) =>
            /\ HasRow(users', s)
            /\ LET a == GetUser(users, s).status
                   b == GetUser(users', s).status
               IN a # b =>
                    \/ a # COMPLETED /\ b = PROCESSING
                    \/ a = PROCESSING /\ b = COMPLETED
                    \/ a = PROCESSING /\ b = FAILED
                    \/ a = PROCESSING /\ b = PENDING /\ stopCause' = "interrupt"]_vars

\* C25: the create_user executor is invoked only while the subject's local
\* record exists with status Processing: whenever the function stands at
\* the call, and in the step that makes the call, the committed table has
\* the record as Processing, and the call itself leaves the table alone.
C25_ExecutorOnlyWhileProcessing ==
  /\ []((Handling("create_user") /\ pc = "cu_exec") =>
          /\ HasRow(users, cur.user._id)
          /\ GetUser(users, cur.user._id).status = PROCESSING)
  /\ [][(Handling("create_user") /\ execs' = execs + 1) =>
          /\ pc = "cu_exec"
          /\ HasRow(users, cur.user._id)
          /\ GetUser(users, cur.user._id).status = PROCESSING
          /\ users' = users]_vars

\* The executor has just been invoked and returned a link; the record is
\* Processing and was not there when the operation was taken up.
C25_Witness ==
  /\ Handling("create_user")
  /\ pc = "cu_link1"
  /\ execs = 1
  /\ res.kind = "link"
  /\ ~HasRow(opStart, cur.user._id)
  /\ GetUser(users, cur.user._id).status = PROCESSING

\* C26: on an executor failure (the executor raised or returned no link)
\* the local status Failed is committed before the Status Reporter is
\* invoked: whenever the reporter is running for a create_user operation
\* whose executor failed, the subject's record is Failed.
C26_FailedBeforeReport ==
  (/\ Handling("create_user")
   /\ pc = "rpt"
   /\ rpt.ctx \in {"cu_try", "cu_handler"}
   /\ res.kind \in {"raise", "empty"})
  => /\ HasRow(users, cur.user._id)
     /\ GetUser(users, cur.user._id).status = FAILED

\* C27: for every operation type, once the executor has succeeded (the
\* create_user executor returned a non-empty link, or the mind report was
\* imported and uploaded), a failure of the payload or completion mutation
\* that follows is not treated as work failure: no 'failed' status is
\* reported upstream for the operation (the store's writes succeeding).
C27_NoFailedReportAfterSuccess ==
  (/\ cur # NoOperation
   /\ res.kind \in {"link", "file"}
   /\ ~faulted)
  => FailedReports = {}

(***************************************************************************)
(* Claims about interrupts and progress.                                   *)
(***************************************************************************)

\* C28: an interrupt that arrives while an operation is being processed is
\* never swallowed by a handler of the operation or of the reporter: once
\* it has arrived the loop has ended (sync_loop has returned, the exit code
\* is 0), and no operation is taken up after it in this run.
C28_InterruptEndsLoop ==
  /\ [](stopCause # "none" => (pc = "stopped" /\ ExitCode = 0))
  /\ [][(stopCause # "none" /\ stopCause' = stopCause) =>
          (pc' = "stopped" /\ cur' = cur /\ execs' = execs /\ calls' = calls)]_vars

\* The operation in hand has an outcome: its completion was sent upstream,
\* or its subject's record is Completed, or a 'failed' report was attempted.
Outcome ==
  \/ CallsNamed("operations:completeOperation") # {}
  \/ /\ Handling("create_user")
     /\ HasRow(users, cur.user._id)
     /\ GetUser(users, cur.user._id).status = COMPLETED
  \/ FailedReports # {}

\* C29: when every call returns or raises and no interrupt arrives, every
\* pending operation of a received batch reaches an outcome (acknowledged
\* complete, local Completed, or Failed with a report attempt), and the
\* dispatcher then returns to waiting for the next batch: an operation taken
\* up reaches the sleep, it has an outcome there, and the loop at the head
\* of a batch reaches the subscription again.
C29_EveryOperationReachesOutcome ==
  /\ [](pc = "sleep" => Outcome)
  /\ (pc = "dispatch") ~> (pc = "sleep")
  /\ (pc = "loop") ~> (pc = "wait")

\* A 'processing' mutation made for the operation in hand has failed.
ProcessingReportFailed ==
  \E i \in DOMAIN calls : calls[i].status = "processing" /\ ~calls[i].ok

\* C30: a failure of the upstream 'processing' mutations is best effort
\* only.  The step in which one fails leaves the store alone, starts no
\* report and puts the function where the mutations' success puts it
\* (before the MySQL check of create_user, at the import of
\* get_mind_report), with the subject of a create_user operation still
\* Processing; and from there the executor is invoked, unless the MySQL
\* check finds the patient and the operation is completed without it.
C30_ProcessingReportBestEffort ==
  /\ [][(Len(calls') = Len(calls) + 1
           /\ calls'[Len(calls')].status = "processing"
           /\ ~calls'[Len(calls')].ok) =>
          /\ pc' = IF Handling("create_user") THEN "cu_mysql" ELSE "gm_import"
          /\ users' = users
          /\ rpt' = rpt
          /\ execs' = execs
          /\ Handling("create_user") =>
               GetUser(users', cur.user._id).status = PROCESSING]_vars
  /\ (ProcessingReportFailed /\ pc \in {"cu_mysql", "gm_import"})
       ~> (execs = 1 \/ res.kind = "exists")

\* The create_user executor has been invoked and returned a link although
\* the first 'processing' mutation failed; the record is Processing.
C30_Witness ==
  /\ Handling("create_user")
  /\ ProcessingReportFailed
  /\ Len(calls) = 1
  /\ execs = 1
  /\ res.kind = "link"
  /\ GetUser(users, cur.user._id).status = PROCESSING

\* C33: an operation of a batch whose status field is not "pending" is
\* never processed.  The step that passes it over invokes no executor,
\* makes no mutation, changes no record and goes back to the loop head
\* without the sleep; and every operation the dispatcher has in hand, the
\* only ones for which an executor, a mutation, a store write or a sleep
\* occurs, is pending.
C33_NonPendingNeverProcessed ==
  /\ [](cur # NoOperation => cur.status = "pending")
  /\ [](pc = "skip" => (cur = NoOperation /\ calls = <<>> /\ execs = 0))
  /\ [][(pc = "skip") =>
          /\ pc' \in {"loop", "stopped"}
          /\ users' = users
          /\ calls' = calls
          /\ execs' = execs
          /\ cur' = NoOperation]_vars
  /\ [][(execs' > execs \/ Len(calls') > Len(calls) \/ users' # users
           \/ pc' = "sleep") =>
          (cur' # NoOperation /\ cur'.status = "pending")]_vars

\* An operation of the first batch has been passed over, with another
\* still to come.
C33_Witness ==
  /\ pc = "skip"
  /\ nbatches = 1
  /\ left = MaxBatchLen - 1
  /\ users = EarlierRun
  /\ stopCause = "none"

\* C34: the processing of a get_mind_report operation leaves the Local
\* State Store alone: no step of it changes a record, whatever the outcome
\* (success, failure or interrupt), and the table is throughout as it was
\* when the operation was taken up.  The subject's local status is not
\* consulted: from the reading of the fields control goes on to the
\* 'processing' mutations and the executor (unless interrupted), so every
\* such operation that reaches the sleep has invoked import_mind_report
\* exactly once, also for a subject that is Completed locally.
C34_MindReportLeavesStore ==
  /\ []((Handling("get_mind_report") /\ pc # "stopped") => users = opStart)
  /\ [][Handling("get_mind_report") => users' = users]_vars
  /\ []((Handling("get_mind_report") /\ pc = "sleep") => execs = 1)
  /\ [][(Handling("get_mind_report") /\ pc \in {"gm_start", "gm_rep1", "gm_rep2"}) =>
          pc' \in {"gm_rep1", "gm_rep2", "gm_import", "stopped"}]_vars

\* The mind report of a subject this loop completed has been imported and
\* saved; the subject's record is as create_user left it.
C34_Witness ==
  /\ Handling("get_mind_report")
  /\ pc = "sleep"
  /\ execs = 1
  /\ res.kind = "file"
  /\ IsUserProcessed(users, cur.user._id)
  /\ users = opStart
  /\ ~IsUserProcessed(EarlierRun, cur.user._id)

\* The local record of the subject of the operation in hand.
CurSubject == GetUser(users, cur.user._id)

\* C35: for a create_user operation, when the MySQL pre-check reports that
\* the patient exists the executor is not invoked and the operation ends
\* with the subject's record Completed and its recording_link NULL, whether
\* or not the 'completed' mutations succeeded (the store's writes
\* succeeding); when the pre-check returns false, which it also does for
\* its own errors, control goes to the executor, which is invoked next
\* unless the loop is interrupted.
C35_MysqlPreCheck ==
  /\ []((Handling("create_user") /\ res.kind = "exists" /\ ~faulted) =>
          /\ execs = 0
          /\ pc \in {"cu_my1", "cu_my2", "cu_mydb", "sleep", "stopped"}
          /\ pc = "sleep" =>
               /\ CurSubject.status = COMPLETED
               /\ CurSubject.recording_link = Null)
  /\ [][(pc = "cu_mysql" /\ pc' # "stopped") =>
          /\ res'.kind = "exists" => pc' = "cu_my1"
          /\ res'.kind # "exists" => (pc' = "cu_exec" /\ execs' = 0)]_vars
  /\ [][(pc = "cu_exec" /\ stopCause' = stopCause) => execs' = execs + 1]_vars

\* The patient existed, the first 'completed' mutation failed, and the
\* record is Completed without a link.
C35_Witness ==
  /\ Handling("create_user")
  /\ pc = "sleep"
  /\ res.kind = "exists"
  /\ ~faulted
  /\ execs = 0
  /\ \E i \in DOMAIN calls : calls[i].status = "completed" /\ ~calls[i].ok
  /\ CurSubject.status = COMPLETED
  /\ CurSubject.recording_link = Null
  /\ ~HasRow(opStart, cur.user._id)

\* C36: when create_user returns without error and its result is None,
\* empty or blank, the dispatcher treats the operation as failed.  Only a
\* result that is not blank is kept as a link; for any other (the store's
\* writes succeeding) the payload and completion mutations are never made,
\* and the operation ends with the subject's record Failed with the
\* message of the empty link and with at least one 'failed' report sent
\* upstream for the operation, each carrying that message.
C36_EmptyLinkIsFailure ==
  /\ (Handling("create_user") /\ res.kind = "link")
       => (res.value # Null /\ Strip(res.value) # <<>>)
  /\ (Handling("create_user") /\ res.kind = "empty" /\ ~faulted)
       => /\ execs = 1
          /\ CallsNamed("user:updateRecordingLink") = {}
          /\ CallsNamed("operations:completeOperation") = {}
  /\ (Handling("create_user") /\ res.kind = "empty" /\ pc = "sleep" /\ ~faulted)
       => /\ CurSubject.status = FAILED
          /\ CurSubject.error_message = EmptyLinkMsg
          /\ CurSubject.recording_link = Null
          /\ FailedReports # {}
          /\ \A i \in FailedReports :
               calls[i].id = cur._id /\ calls[i].payload = EmptyLinkMsg

\* The executor gave no link, the upstream refused the first report and
\* accepted the second, and the record is Failed.
C36_Witness ==
  /\ Handling("create_user")
  /\ pc = "sleep"
  /\ res.kind = "empty"
  /\ ~faulted
  /\ execs = 1
  /\ Cardinality(FailedReports) = 2
  /\ ~calls[Len(calls) - 1].ok
  /\ calls[Len(calls)].ok
  /\ CurSubject.status = FAILED
  /\ CurSubject.error_message = EmptyLinkMsg

\* The accepted operations:completeOperation mutations made for the
\* operation in hand.
Completions ==
  {i \in CallsNamed("operations:completeOperation") :
     calls[i].ok /\ calls[i].id = cur._id}

\* C37: within one processing of an operation, of whatever type, in which
\* no store write failed, the dispatcher never has both an accepted
\* operations:completeOperation and a 'failed' operations:updateOperationStatus
\* sent for that operation; at most one completion is accepted.
C37_OutcomesExclusive ==
  (cur # NoOperation /\ ~faulted)
  => /\ Completions = {} \/ FailedReports = {}
     /\ Cardinality(Completions) <= 1

\* A create_user operation ended by the pre-check with its completion
\* accepted, after its first 'processing' report had failed; no 'failed'
\* report was made.
C37_Witness ==
  /\ Handling("create_user")
  /\ pc = "sleep"
  /\ ~faulted
  /\ res.kind = "exists"
  /\ Completions # {}
  /\ FailedReports = {}
  /\ ProcessingReportFailed

(***************************************************************************)
(* Claims about the user sync engine.  A user's processing has finished    *)
(* when process_user has returned (pc = "pu_done").                        *)
(***************************************************************************)

\* The record of the user being processed, and its retry_count when the
\* processing began (0 when it had no record yet).
CurRow == GetUser(users, cur._id)
RetriesAtStart ==
  IF HasRow(opStart, cur._id) THEN GetUser(opStart, cur._id).retry_count ELSE 0

\* C31: in process_user, once create_user has returned a recording link
\* the subject's record is Completed with that link when the processing
\* has finished, whether or not user:updateRecordingLink succeeded (the
\* store's writes succeeding).
C31_LinkCompletesLocally ==
  (pc = "pu_done" /\ res.kind = "link" /\ ~faulted)
  => /\ CurRow.status = COMPLETED
     /\ CurRow.recording_link = res.value

\* C32: in process_user a failed processing (the executor raised or gave
\* no link) first increments the subject's retry_count by exactly one and
\* then sets the record Failed with the error message (the store's writes
\* succeeding); a subject already Completed is passed over: its record is
\* changed by no step and the executor is never invoked for it.
C32_FailureCountedOnce ==
  /\ [](/\ (pc \in {"pu_failed", "pu_failed_h"} /\ res.kind \in {"raise", "empty"}
              /\ ~faulted)
            => /\ CurRow.status = PROCESSING
               /\ CurRow.retry_count = RetriesAtStart + 1
        /\ (pc = "pu_done" /\ res.kind \in {"raise", "empty"} /\ ~faulted)
            => /\ CurRow.status = FAILED
               /\ CurRow.error_message = errMsg
               /\ CurRow.retry_count = RetriesAtStart + 1)
  /\ [][/\ \A s \in Subjects :
             IsUserProcessed(users, s) => GetUser(users', s) = GetUser(users, s)
        /\ (execs' = execs + 1) => ~IsUserProcessed(users, cur._id)
        /\ \A s \in Subjects :
             (pc = "su_loop" /\ pc' = "pu_gate" /\ cur'._id = s)
               => ~IsUserProcessed(users, s)]_vars

\* A second failure of the same user has been counted.
C32_Witness ==
  /\ pc = "pu_done"
  /\ res.kind = "raise"
  /\ ~faulted
  /\ execs = 1
  /\ CurRow.status = FAILED
  /\ CurRow.retry_count = 2
  /\ IsUserProcessed(users, "s2")

(***************************************************************************)
(* Claims about the Local State Store.                                     *)
(***************************************************************************)

\* C14: add_user inserts a record with status pending, retry_count 0 and
\* null processed_at (and no link or error message) when the subject has no
\* record, leaving the other records as they are; when a record exists the
\* call changes nothing; and the store never holds two records of one
\* subject id.
C14_AddUserInsertsOrIgnores ==
  /\ [](\A i, j \in DOMAIN users : users[i].user_id = users[j].user_id => i = j)
  /\ [][\A s \in Subjects :
          StoreAddUser(s) =>
            IF HasRow(users, s) THEN users' = users
            ELSE /\ Len(users') = Len(users) + 1
                 /\ \A i \in DOMAIN users : users'[i] = users[i]
                 /\ LET r == users'[Len(users')]
                    IN /\ r.user_id = s
                       /\ r.client_code = UserDoc(s).clientCode
                       /\ r.first_name = UserDoc(s).firstName
                       /\ r.last_name = UserDoc(s).lastName
                       /\ r.status = "pending"
                       /\ r.retry_count = 0
                       /\ r.processed_at = NullTime
                       /\ r.recording_link = Null
                       /\ r.error_message = Null]_vars

\* Both cases of add_user: a record as add_user inserts it (only add_user
\* creates records), and a failed, retried record on which a further
\* add_user is the no-op.
C14_Witness ==
  \E i, j \in DOMAIN users :
    /\ users[i].status = PENDING /\ users[i].retry_count = 0
    /\ users[i].processed_at = NullTime /\ users[i].error_message = Null
    /\ users[j].status = FAILED /\ users[j].retry_count > 0
    /\ users[j].error_message = ErrorX /\ users[j].processed_at # NullTime

\* C15: every record's retry_count is non-negative, and no call lowers the
\* retry_count of a record that exists before and after it: not add_user,
\* update_status or increment_retry (the only store writes the dispatcher
\* makes are add_user and update_status), and not reset_user or
\* cleanup_old_records either.
C15_RetryCountNeverDecreases ==
  /\ [](\A i \in DOMAIN users : users[i].retry_count >= 0)
  /\ [][\A s \in Subjects :
          (HasRow(users, s) /\ HasRow(users', s))
            => GetUser(users', s).retry_count >= GetUser(users, s).retry_count]_vars

\* A record that was retried up to the bound and then completed: its count
\* was kept by the update_status calls that followed the increments.
C15_Witness ==
  \E i \in DOMAIN users :
    /\ users[i].retry_count = MaxRetryCount
    /\ users[i].status = COMPLETED
    /\ users[i].recording_link = LinkX

\* C17: reset_user on an existing record sets its status to pending and its
\* processed_at to null and leaves its retry_count, recording_link and
\* error_message (and its names) as they were; every other
\* record is unchanged and no record is added or removed.
C17_ResetUserFrame ==
  [][\A s \in Subjects :
       (StoreResetUser(s) /\ HasRow(users, s)) =>
         /\ DOMAIN users' = DOMAIN users
         /\ \A i \in DOMAIN users :
              IF users[i].user_id = s
              THEN /\ users'[i].status = "pending"
                   /\ users'[i].processed_at = NullTime
                   /\ users'[i].retry_count = users[i].retry_count
                   /\ users'[i].recording_link = users[i].recording_link
                   /\ users'[i].error_message = users[i].error_message
                   /\ users'[i].user_id = users[i].user_id
                   /\ users'[i].client_code = users[i].client_code
                   /\ users'[i].first_name = users[i].first_name
                   /\ users'[i].last_name = users[i].last_name
              ELSE users'[i] = users[i]]_vars

\* A completed, retried record after reset_user: pending with its link and
\* count kept (update_status to pending would have cleared the link), next
\* to a failed record the call left alone.
C17_Witness ==
  \E i, j \in DOMAIN users :
    /\ users[i].status = PENDING /\ users[i].processed_at = NullTime
    /\ users[i].recording_link = LinkX /\ users[i].retry_count > 0
    /\ users[j].status = FAILED /\ users[j].error_message = ErrorX
    /\ users[j].processed_at # NullTime

(***************************************************************************)
(* Claims about two workers on one store.                                  *)
(***************************************************************************)

\* The workers that have set the subject to Processing (line 94) and have
\* not yet written the outcome of their attempt.
GateHolders == {w \in GateWorkers : wpc[w] \in {"exec", "link", "raised"}}

\* C20: when two workers sharing one store receive a create_user operation
\* for the same subject that is not yet Completed, the transition to
\* Processing is won by exactly one of them: never are both past it with
\* their attempts unfinished, each about to invoke the executor or having
\* invoked it.
C20_OneWorkerWinsProcessing == Cardinality(GateHolders) <= 1

\* The tick a timestamp text stands for.
TickOf(ts) == ts[1] * TicksPerDay + ts[3]

\* The rows of the table whose subject has no row after the step.
Removed == {i \in DOMAIN users : ~HasRow(users', users[i].user_id)}

RetryLimit == 3

\* C23: is_user_processed returns True exactly when the record is completed
\* or has failed with its retries used up (retry_count at the limit or
\* beyond), and False otherwise, also when there is no record.
C23_ProcessedIffCompletedOrExhausted ==
  \A s \in Subjects :
    IsUserProcessed(users, s) <=>
      /\ HasRow(users, s)
      /\ \/ GetUser(users, s).status = COMPLETED
         \/ /\ GetUser(users, s).status = FAILED
            /\ GetUser(users, s).retry_count >= RetryLimit

\* C4: in every reachable state of the store, after any sequence of
\* add_user, update_status, increment_retry, reset_user and
\* cleanup_old_records calls, every record has processed_at non-null if and
\* only if its status is completed or failed.
C4_ProcessedAtIffTerminal ==
  \A i \in DOMAIN users :
    (users[i].processed_at # NullTime) <=> (users[i].status \in {COMPLETED, FAILED})

\* One record completed and stamped, the other failed, retried, reset to
\* pending (its error message kept) and no longer stamped.
C4_Witness ==
  \E i, j \in DOMAIN users :
    /\ users[i].status = COMPLETED /\ users[i].processed_at # NullTime
    /\ users[j].status = PENDING /\ users[j].error_message = ErrorX
    /\ users[j].retry_count > 0 /\ users[j].processed_at = NullTime

\* C5: N concurrent increment_retry calls on one existing subject, in any
\* interleaving of their steps, leave the subject's retry_count exactly N
\* higher than before: the committed count is always the count before the
\* calls plus the number of calls that have committed, and the calls return
\* distinct counts.
C5_NoLostUpdate ==
  LET committed == {w \in Workers : wpc[w] \in {"committed", "returned"}}
  IN /\ GetUser(users, IncrSubject).retry_count = incrBase + Cardinality(committed)
     /\ \A v, w \in committed : v # w => wret[v] # wret[w]
     /\ (\A w \in Workers : wpc[w] = "returned")
          => GetUser(users, IncrSubject).retry_count = incrBase + NWorkers

C5_Witness ==
  /\ \A w \in Workers : wpc[w] = "returned"
  /\ incrBase = 1
  /\ GetUser(users, IncrSubject).retry_count = 1 + NWorkers

\* C9: get_failed_users(max_retries) returns exactly the records whose
\* status is failed and whose retry_count is strictly less than max_retries,
\* each once, ordered by updated_at ascending; a Failed record with
\* retry_count 2 is returned by get_failed_users(3) and one with retry_count
\* 3 is not.
C9_GetFailedUsers ==
  last.op = "get_failed_users" =>
    LET r == last.result
        m == last.arg
        returned(row) == \E k \in DOMAIN r : r[k] = row
    IN /\ \A i \in DOMAIN users :
            returned(users[i]) <=>
              (users[i].status = "failed" /\ users[i].retry_count < m)
       /\ \A k \in DOMAIN r : \E i \in DOMAIN users : users[i] = r[k]
       /\ \A j, k \in DOMAIN r : r[j].user_id = r[k].user_id => j = k
       /\ \A j, k \in DOMAIN r :
            j < k => ~TextLess(r[k].updated_at, r[j].updated_at)
       /\ m = 3 =>
            \A i \in DOMAIN users :
              users[i].status = "failed" =>
                /\ users[i].retry_count = 2 => returned(users[i])
                /\ users[i].retry_count = 3 => ~returned(users[i])

\* get_failed_users(3) on a table with a Failed record of retry_count 2,
\* returned, and a Failed record of retry_count 3, left out.
C9_Witness ==
  /\ last.op = "get_failed_users"
  /\ last.arg = 3
  /\ Len(last.result) = 1
  /\ last.result[1].retry_count = 2
  /\ \E i \in DOMAIN users : users[i].status = FAILED /\ users[i].retry_count = 3

=============================================================================
